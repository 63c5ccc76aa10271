------------------------------- MODULE DiskGuard -------------------------------
(***************************************************************************)
(* The disk watermarks: operators save them in the web process, several at *)
(* a time; the worker copies them every 15 seconds, refuses new recordings *)
(* at the soft level and, every 5 seconds, stops all recordings at the     *)
(* hard level.  The operator's page computes the same levels from the      *)
(* worker's last report (diskGuardLevel in web/src/App.tsx), which here is *)
(* the reference for what the levels mean.                                 *)
(*                                                                         *)
(* Sizes are small numbers of bytes; the worker computes with unsigned     *)
(* words of Word values (in the code 2^64, and a GiB has 2^30 bytes).      *)
(* Percentages are compared exactly, not in floating point.                *)
(***************************************************************************)
EXTENDS Naturals

CONSTANTS
    Recordings,
    Savers,          \* concurrent SaveSettings requests
    Percents, GiBs,  \* what an operator can type
    Total,           \* size of the disk
    Free,            \* free space the disk can have
    GiB, Word

ASSUME DiskAssumption ==
    /\ Percents \subseteq Nat /\ GiBs \subseteq Nat
    /\ Total \in Nat \ {0} /\ Free \subseteq 0..Total
    /\ GiB \in Nat \ {0} /\ Word \in Nat \ {0}

VARIABLES
    free,      \* free space
    stored,    \* committed rows of table settings
    saving,    \* what each saver wants to store, or NoSettings
    left,      \* keys each saver has not written yet
    settings,  \* Runner.settings
    guard,     \* enforceDiskGuard: "waiting" for its ticker, "awake", or "hard" once it
               \* measured the hard level
    rec        \* where each recording is

vars == <<free, stored, saving, left, settings, guard, rec>>

Keys       == {"softPercent", "softGiB", "hardPercent", "hardGiB"}
NoSettings == [k \in Keys |-> 0]

Typed == {s \in [Keys -> Percents \cup GiBs] :
             /\ {s["softPercent"], s["hardPercent"]} \subseteq Percents
             /\ {s["softGiB"], s["hardGiB"]} \subseteq GiBs}

\* ValidateSettings
Valid(s) ==
    /\ s["softPercent"] > s["hardPercent"] /\ s["softPercent"] <= 50
    /\ s["hardPercent"] \in 1..20
    /\ s["softGiB"] > s["hardGiB"]

-----------------------------------------------------------------------------

Init ==
    /\ free \in Free
    /\ stored \in {s \in Typed : Valid(s)} /\ settings = stored
    /\ saving = [q \in Savers |-> NoSettings]
    /\ left = [q \in Savers |-> {}]
    /\ guard = "waiting"
    /\ rec = [r \in Recordings |-> "off"]

DiskChanges(f) ==
    /\ f # free /\ free' = f
    /\ UNCHANGED <<stored, saving, left, settings, guard, rec>>

(* Store.SaveSettings ----------------------------------------------------------- *)

AskSave(q, s) ==
    /\ saving[q] = NoSettings /\ Valid(s)
    /\ saving' = [saving EXCEPT ![q] = s]
    /\ left' = [left EXCEPT ![q] = Keys]
    /\ UNCHANGED <<free, stored, settings, guard, rec>>

Written(q) == IF saving[q] = NoSettings THEN {} ELSE Keys \ left[q]

\* Faulty variant of Visible: no transaction, each row is committed by itself.
VisibleAtOnce(q, k) == [stored EXCEPT ![k] = saving[q][k]]

\* What others read after a row was written in the transaction.
Visible(q, k) == stored

\* The rows are written in the order of a Go map; a row another transaction has
\* written is waited for.
WriteKey(q, k) ==
    /\ k \in left[q]
    /\ \A other \in Savers \ {q} : k \notin Written(other)
    /\ left' = [left EXCEPT ![q] = @ \ {k}]
    /\ stored' = Visible(q, k)
    /\ UNCHANGED <<free, saving, settings, guard, rec>>

Commit(q) ==
    /\ saving[q] # NoSettings /\ left[q] = {}
    /\ stored' = saving[q]
    /\ saving' = [saving EXCEPT ![q] = NoSettings]
    /\ UNCHANGED <<free, left, settings, guard, rec>>

\* PostgreSQL ends a deadlock of two savers, or the request is gone.
Rollback(q) ==
    /\ saving[q] # NoSettings
    /\ saving' = [saving EXCEPT ![q] = NoSettings]
    /\ left' = [left EXCEPT ![q] = {}]
    /\ UNCHANGED <<free, stored, settings, guard, rec>>

(* Runner.diskLevels -------------------------------------------------------------- *)

\* diskStats, or the two zeros it returns with an error that is ignored.
Works  == [total |-> Total, free |-> free]
Broken == [total |-> 0, free |-> 0]

\* Faulty variant of AtMost: a disk exactly at its watermark is not below it.
Under(x, y) == x < y

AtMost(x, y) == x <= y

Below(d, percent, gib) ==
    \/ d.total > 0 /\ AtMost(d.free * 100, percent * d.total)
    \/ d.total = 0 /\ percent >= 100
    \/ AtMost(d.free, (gib * GiB) % Word)

Soft(d) == Below(d, settings["softPercent"], settings["softGiB"])
Hard(d) == Below(d, settings["hardPercent"], settings["hardGiB"])

(* The worker ----------------------------------------------------------------------- *)

\* Faulty variant of GetSettings: the copy is replaced although the query failed.
GetSettingsUnchecked == NoSettings

GetSettings == stored

\* The 15-second tick; an error leaves the old copy.
SettingsTick ==
    /\ settings' = GetSettings
    /\ UNCHANGED <<free, stored, saving, left, guard, rec>>

\* Faulty variant of Admits: the soft level is not looked at.
AdmitsAlways == TRUE

Admits == ~Soft(Works)

\* startRecording's first check; what it checked may be old when it registers.
StartChecked(r) ==
    /\ rec[r] = "off" /\ Admits
    /\ rec' = [rec EXCEPT ![r] = "checked"]
    /\ UNCHANGED <<free, stored, saving, left, settings, guard>>

StartRegisters(r) ==
    /\ rec[r] = "checked"
    /\ rec' = [rec EXCEPT ![r] = "running"]
    /\ UNCHANGED <<free, stored, saving, left, settings, guard>>

\* The 5-second ticker fires.
GuardWakes ==
    /\ guard = "waiting" /\ guard' = "awake"
    /\ UNCHANGED <<free, stored, saving, left, settings, rec>>

\* enforceDiskGuard measures ...
GuardMeasures ==
    /\ guard = "awake"
    /\ \E d \in {Works, Broken} : guard' = IF Hard(d) THEN "hard" ELSE "waiting"
    /\ UNCHANGED <<free, stored, saving, left, settings, rec>>

\* ... and at the hard level stops what is registered in Runner.recordings then.
GuardStops ==
    /\ guard = "hard" /\ guard' = "waiting"
    /\ rec' = [r \in Recordings |-> IF rec[r] = "running" THEN "stopping" ELSE rec[r]]
    /\ UNCHANGED <<free, stored, saving, left, settings>>

Ends(r) ==
    /\ rec[r] \in {"running", "stopping"}
    /\ rec' = [rec EXCEPT ![r] = "off"]
    /\ UNCHANGED <<free, stored, saving, left, settings, guard>>

-----------------------------------------------------------------------------

Next ==
    \/ \E f \in Free : DiskChanges(f)
    \/ \E q \in Savers :
          \/ \E s \in Typed : AskSave(q, s)
          \/ \E k \in Keys : WriteKey(q, k)
          \/ Commit(q) \/ Rollback(q)
    \/ SettingsTick
    \/ \E r \in Recordings : StartChecked(r) \/ StartRegisters(r) \/ Ends(r)
    \/ GuardWakes \/ GuardMeasures \/ GuardStops

Spec == Init /\ [][Next]_vars

\* The worker's tickers fire and what they begin goes on: a measurement is made,
\* whatever it finds.  Reading the settings succeeds in the end, a start that was
\* checked goes on and a recording that was told to stop ends.
FairSpec ==
    /\ Spec
    /\ WF_vars(SettingsTick)
    /\ WF_vars(GuardWakes) /\ WF_vars(GuardMeasures) /\ WF_vars(GuardStops)
    /\ \A r \in Recordings :
          WF_vars(StartRegisters(r)) /\ WF_vars(rec[r] = "stopping" /\ Ends(r))

-----------------------------------------------------------------------------

\* diskGuardLevel in the client, for a worker that reports a size.
ClientBelow(s, percent, gib) ==
    free * 100 <= s[percent] * Total \/ free <= s[gib] * GiB
ClientHard(s) == ClientBelow(s, "hardPercent", "hardGiB")
ClientSoft(s) == ClientHard(s) \/ ClientBelow(s, "softPercent", "softGiB")

TypeOK ==
    /\ free \in Free
    /\ {stored, settings} \subseteq Typed
    /\ saving \in [Savers -> Typed \cup {NoSettings}]
    /\ left \in [Savers -> SUBSET Keys]
    /\ guard \in {"waiting", "awake", "hard"}
    /\ rec \in [Recordings -> {"off", "checked", "running", "stopping"}]

\* Savers that run at the same time never leave a mixture of their settings that
\* no one of them validated, nor does the worker read one (store_settings.go:56-79).
SettingsAreValid == Valid(stored) /\ Valid(settings)

\* No watermark of these settings overflows a word.
NoWrap(s) == s["softGiB"] * GiB < Word /\ s["hardGiB"] * GiB < Word

\* The worker never refuses or stops at a level that the operator is not shown for the
\* settings it works with; unless a watermark overflows, it does at every level that is
\* shown (worker.go:683-695).
LevelsMatchClient ==
    /\ Soft(Works) => ClientSoft(settings)
    /\ Hard(Works) => ClientHard(settings)
    /\ NoWrap(settings) =>
          (ClientSoft(settings) => Soft(Works)) /\ (ClientHard(settings) => Hard(Works))

\* Once the settings are left alone, none of their watermarks overflows and the disk
\* stays at their hard level, every recording ends, even one whose start was checked
\* before (worker.go:697-711, README.md:205).
HardStopsRecordings ==
    \A s \in {t \in Typed : Valid(t) /\ NoWrap(t)} :
        <>[](stored = s /\ ClientHard(s)) => <>[](\A r \in Recordings : rec[r] = "off")

=============================================================================
