------------------------------ MODULE StreamInput ------------------------------
(***************************************************************************)
(* What the web process makes of the form, or of the SRT address, that an  *)
(* operator submits for a stream, what the table then accepts, and the     *)
(* address FFmpeg is given for the stored row.                             *)
(*                                                                         *)
(* A text is a record of which text it is and how long it is, already      *)
(* trimmed; a mode is already in lower case.  A Stream ID is the sequence  *)
(* of its parts between colons.                                            *)
(***************************************************************************)
EXTENDS Integers, Sequences

CONSTANT NoURL   \* the form names no SRT address

IsEmpty(t) == t.length = 0

ListenerPorts == 9000..9099
SRTPorts      == 1..65535
Latencies     == 20..8000      \* milliseconds
Timeouts      == 5000..300000  \* milliseconds

\* firstQuery: the first spelling of "names" with a value, or the value of any
\* key that matches one of them in another case, whichever the map yields first.
\* "values" are the matching keys of the query.
FirstQuery(values, names, none) ==
    LET exact == {i \in DOMAIN names :
                     names[i] \in DOMAIN values /\ values[names[i]] # none}
    IN  IF exact # {}
        THEN {values[names[i]] : i \in {i \in exact : \A j \in exact : i <= j}}
        ELSE IF DOMAIN values # {} THEN {values[k] : k \in DOMAIN values} ELSE {none}

Digits(n) == IF n < 10 THEN 1 ELSE IF n < 100 THEN 2 ELSE IF n < 1000 THEN 3
             ELSE IF n < 10000 THEN 4 ELSE 5

\* The last part of the Stream ID that is not empty, or the host and the port.
StreamNameFromSRT(streamid, host, port) ==
    LET named == {i \in DOMAIN streamid : ~IsEmpty(streamid[i])}
    IN  IF named # {}
        THEN streamid[CHOOSE i \in named : \A j \in named : j <= i]
        ELSE [id |-> <<host.id, port>>, length |-> host.length + 1 + Digits(port)]

\* What a form may become once the address it names replaced its fields; nothing
\* if the address is refused.  An unreadable or missing port is 0.
NormalizeStreamInput(in) ==
    LET url == in.url IN
    IF url = NoURL THEN {in}
    ELSE IF ~url.srt \/ IsEmpty(url.host) \/ url.port \notin SRTPorts THEN {}
    ELSE {[in EXCEPT !.mode = "caller", !.host = url.host, !.port = url.port,
                     !.streamid = sid,
                     !.name = IF IsEmpty(in.name)
                              THEN StreamNameFromSRT(sid, url.host, url.port)
                              ELSE in.name] :
             sid \in IF FirstQuery(url.mode, <<"mode">>, "") \cap {"", "caller"} = {} THEN {}
                     ELSE FirstQuery(url.streamid, <<"streamid", "streamId">>, <<>>)}

Defaulted(in) ==
    [in EXCEPT !.latency = IF @ = 0 THEN 200 ELSE @,
               !.timeout = IF @ = 0 THEN 30000 ELSE @]

\* Faulty variant of PortAllowed: a listener may take a port nobody published.
AnyPort(in) == in.port \in SRTPorts

PortAllowed(in) ==
    /\ in.port \in SRTPorts
    /\ in.mode = "listener" => in.port \in ListenerPorts

PassAllowed(pass) == IsEmpty(pass) \/ pass.length \in 10..79

Acceptable(in) ==
    /\ in.name.length \in 1..80
    /\ in.mode \in {"listener", "caller"}
    /\ in.mode = "caller" => ~IsEmpty(in.host)
    /\ PortAllowed(in)
    /\ in.latency \in Latencies /\ in.timeout \in Timeouts
    /\ PassAllowed(in.pass)

\* What the code may store of a form; nothing if it is refused.
ValidateStreamInput(in) ==
    {v \in {Defaulted(n) : n \in NormalizeStreamInput(in)} : Acceptable(v)}

\* What the table keeps of a form, or of a row, with this passphrase.
Row(in, pass) ==
    [name |-> in.name, mode |-> in.mode, host |-> in.host, port |-> in.port,
     streamid |-> in.streamid, latency |-> in.latency, timeout |-> in.timeout,
     pass |-> pass]

-----------------------------------------------------------------------------

\* The CHECKs of table streams.
TableAccepts(row) ==
    /\ row.mode \in {"listener", "caller"}
    /\ row.port \in SRTPorts /\ row.latency \in Latencies /\ row.timeout \in Timeouts

AnyAddress == [id |-> "0.0.0.0", length |-> 7]

\* media.BuildSRTURL, which fails on an empty host; times are in microseconds.
URLHost(row) == IF row.mode = "listener" THEN AnyAddress ELSE row.host

BuildSRTURL(row) ==
    [mode |-> row.mode, host |-> URLHost(row), port |-> row.port,
     streamid |-> row.streamid, latency |-> row.latency * 1000,
     timeout |-> row.timeout * 1000, pass |-> row.pass]

=============================================================================
