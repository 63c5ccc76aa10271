-------------------------- MODULE MCStreamAdmission --------------------------
(***************************************************************************)
(* Small instances of StreamAdmission: two requests in flight, and forms   *)
(* that name two listener ports, a caller's address typed or pasted, a     *)
(* passphrase given, kept or cleared, and every limit on either side.      *)
(***************************************************************************)
EXTENDS StreamAdmission, TLC

CONSTANTS s1, s2, s3, q1, q2

MCStreams  == {s1, s2, s3}
MCRequests == {q1, q2}
Symmetry   == Permutations(MCStreams) \cup Permutations(MCRequests)

Text(i, n) == [id |-> i, length |-> n]
Pass       == Text("pass", 10)

\* A listener with a short name, on the first port, without a passphrase.
Form ==
    [url |-> NoURL, name |-> Text("a", 1), mode |-> "listener", host |-> NoText,
     port |-> 9000, streamid |-> <<>>, latency |-> 0, timeout |-> 0,
     pass |-> NoText, clear |-> FALSE]

\* An address with a Stream ID whose last part is empty, for a form without a name.
Address ==
    [srt |-> TRUE, host |-> Text("host", 4), port |-> 65535, mode |-> "mode" :> "",
     streamid |-> "StreamID" :> <<Text("b", 80), NoText>>]
Pasted == [Form EXCEPT !.url = Address, !.name = NoText]

Stored ==
    {Form, [Form EXCEPT !.pass = Pass],
     [Form EXCEPT !.name = Text("b", 80), !.port = 9099, !.latency = 20,
                  !.timeout = 300000, !.clear = TRUE],
     Pasted}

Rejected ==
    {[Form EXCEPT !.name = NoText], [Form EXCEPT !.name = Text("long", 81)],
     [Form EXCEPT !.mode = "rendezvous"], [Form EXCEPT !.mode = "caller"],
     [Form EXCEPT !.port = 8999], [Form EXCEPT !.port = 9100],
     [Form EXCEPT !.latency = 19], [Form EXCEPT !.latency = 8001],
     [Form EXCEPT !.timeout = 4999], [Form EXCEPT !.timeout = 300001],
     [Form EXCEPT !.pass = Text("short", 9)], [Form EXCEPT !.pass = Text("long", 80)],
     [Form EXCEPT !.mode = "caller", !.host = Text("host", 4), !.port = 65536],
     [Pasted EXCEPT !.url.port = 0], [Pasted EXCEPT !.url.port = 65536],
     [Pasted EXCEPT !.url.host = NoText], [Pasted EXCEPT !.url.srt = FALSE],
     [Pasted EXCEPT !.url.mode = "mode" :> "listener"],
     [Pasted EXCEPT !.url.streamid = <<>>, !.url.host = Text("host", 76)]}

MCInputs == Stored \cup Rejected

=============================================================================
