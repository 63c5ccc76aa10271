---------------------------- MODULE DiskGuardProofs ----------------------------
(***************************************************************************)
(* Proofs about DiskGuard, for every number of savers and recordings, every *)
(* disk and everything an operator can type.                               *)
(***************************************************************************)
EXTENDS DiskGuard, TLAPS

\* Whatever a saver is about to commit was validated.
SavingIsValid == \A q \in Savers : saving[q] # NoSettings => Valid(saving[q])

\* The inductive invariant: SettingsAreValid needs SavingIsValid, because a commit
\* stores what was validated some steps ago.
IInv ==
    /\ TypeOK
    /\ SettingsAreValid
    /\ SavingIsValid

LEMMA InitEstablishes == Init => IInv
<1> SUFFICES ASSUME Init PROVE IInv
  OBVIOUS
<1>1. TypeOK
  BY DEF Init, TypeOK
<1>2. SettingsAreValid
  BY DEF Init, SettingsAreValid
<1>3. SavingIsValid
  BY DEF Init, SavingIsValid
<1> QED
  BY <1>1, <1>2, <1>3 DEF IInv

\* A saver's own step: its place changes, and what it stores is its own.
LEMMA SaverStep ==
    ASSUME IInv, NEW q \in Savers,
           \/ \E s \in Typed : AskSave(q, s)
           \/ \E k \in Keys : WriteKey(q, k)
           \/ Commit(q)
           \/ Rollback(q)
    PROVE  IInv'
<1> USE DEF IInv
<1>1. CASE \E s \in Typed : AskSave(q, s)
  <2>1. PICK s \in Typed : AskSave(q, s)
    BY <1>1
  <2>2. TypeOK'
    BY <2>1 DEF TypeOK, AskSave
  <2>3. SettingsAreValid'
    BY <2>1 DEF SettingsAreValid, AskSave
  <2>4. SavingIsValid'
    BY <2>1 DEF SavingIsValid, AskSave, TypeOK
  <2> QED
    BY <2>2, <2>3, <2>4
<1>2. CASE \E k \in Keys : WriteKey(q, k)
  BY <1>2 DEF WriteKey, Visible, TypeOK, SettingsAreValid, SavingIsValid
<1>3. CASE Commit(q)
  <2>1. saving[q] \in Typed /\ Valid(saving[q]) /\ stored' = saving[q]
    BY <1>3 DEF Commit, TypeOK, SavingIsValid
  <2>2. TypeOK'
    BY <1>3, <2>1 DEF TypeOK, Commit
  <2>3. SettingsAreValid'
    BY <1>3, <2>1 DEF SettingsAreValid, Commit
  <2>4. SavingIsValid'
    BY <1>3 DEF SavingIsValid, Commit, TypeOK
  <2> QED
    BY <2>2, <2>3, <2>4
<1>4. CASE Rollback(q)
  <2>1. TypeOK'
    BY <1>4 DEF TypeOK, Rollback
  <2>2. SettingsAreValid'
    BY <1>4 DEF SettingsAreValid, Rollback
  <2>3. SavingIsValid'
    BY <1>4 DEF SavingIsValid, Rollback, TypeOK
  <2> QED
    BY <2>1, <2>2, <2>3
<1> QED
  BY <1>1, <1>2, <1>3, <1>4

LEMMA StepPreserves == IInv /\ [Next]_vars => IInv'
<1> SUFFICES ASSUME IInv, [Next]_vars PROVE IInv'
  OBVIOUS
<1> USE DEF IInv
<1>1. ASSUME NEW f \in Free, DiskChanges(f) PROVE IInv'
  BY <1>1 DEF DiskChanges, TypeOK, SettingsAreValid, SavingIsValid
<1>2. ASSUME NEW q \in Savers, \E s \in Typed : AskSave(q, s) PROVE IInv'
  BY <1>2, SaverStep
<1>3. ASSUME NEW q \in Savers, \E k \in Keys : WriteKey(q, k) PROVE IInv'
  BY <1>3, SaverStep
<1>4. ASSUME NEW q \in Savers, Commit(q) PROVE IInv'
  BY <1>4, SaverStep
<1>5. ASSUME NEW q \in Savers, Rollback(q) PROVE IInv'
  BY <1>5, SaverStep
<1>6. CASE SettingsTick
  BY <1>6 DEF SettingsTick, GetSettings, TypeOK, SettingsAreValid, SavingIsValid
<1>7. ASSUME NEW r \in Recordings, StartChecked(r) \/ StartRegisters(r) \/ Ends(r)
      PROVE  IInv'
  BY <1>7 DEF StartChecked, StartRegisters, Ends, TypeOK, SettingsAreValid, SavingIsValid
<1>8. CASE GuardWakes \/ GuardMeasures
  <2>1. guard' \in {"waiting", "awake", "hard"}
    BY <1>8 DEF GuardWakes, GuardMeasures
  <2> QED
    BY <1>8, <2>1
    DEF GuardWakes, GuardMeasures, TypeOK, SettingsAreValid, SavingIsValid
<1>9. CASE GuardStops
  BY <1>9 DEF GuardStops, TypeOK, SettingsAreValid, SavingIsValid
<1>10. CASE UNCHANGED vars
  BY <1>10 DEF vars, TypeOK, SettingsAreValid, SavingIsValid
<1> QED
  BY <1>1, <1>2, <1>3, <1>4, <1>5, <1>6, <1>7, <1>8, <1>9, <1>10 DEF Next

\* The inductive invariant holds in every reachable state.
THEOREM DiskInvariant == Spec => []IInv
<1>1. Init => IInv
  BY InitEstablishes
<1>2. IInv /\ [Next]_vars => IInv'
  BY StepPreserves
<1> QED
  BY <1>1, <1>2, PTL DEF Spec

\* The variables keep their types (store_settings.go:56-79, worker.go:683-711).
THEOREM DiskTypeOK == Spec => []TypeOK
<1>1. IInv => TypeOK
  BY DEF IInv
<1> QED
  BY <1>1, DiskInvariant, PTL

\* However many savers run at once, neither the stored settings nor the worker's
\* copy is a mixture that nobody validated (store_settings.go:56-79).
THEOREM DiskSettingsAreValid == Spec => []SettingsAreValid
<1>1. IInv => SettingsAreValid
  BY DEF IInv
<1> QED
  BY <1>1, DiskInvariant, PTL

-----------------------------------------------------------------------------

LEMMA Modulo ==
    ASSUME NEW x \in Nat, NEW w \in Nat \ {0}
    PROVE  /\ x % w \in Nat /\ x % w <= x
           /\ x < w => x % w = x
<1>1. x = w * (x \div w) + (x % w) /\ x \div w \in Nat /\ x % w \in Nat
  OBVIOUS
<1>2. w * (x \div w) \in Nat
  BY <1>1
<1> QED
  BY <1>1, <1>2

LEMMA Monotone ==
    ASSUME NEW x \in Nat, NEW y \in Nat, NEW z \in Nat, x < y
    PROVE  x * z \in Nat /\ y * z \in Nat /\ x * z <= y * z
  OBVIOUS

\* For a disk whose size is known the worker finds a level only where the client does,
\* and everywhere the client does if the watermark does not overflow.
LEMMA BelowMatches ==
    ASSUME free \in Nat, NEW percent \in Percents, NEW gib \in GiBs
    PROVE  LET shown == free * 100 <= percent * Total \/ free <= gib * GiB
           IN  /\ Below(Works, percent, gib) => shown
               /\ gib * GiB < Word => (shown => Below(Works, percent, gib))
<1>1. gib * GiB \in Nat /\ Word \in Nat \ {0}
  BY DiskAssumption
<1>2. /\ (gib * GiB) % Word \in Nat /\ (gib * GiB) % Word <= gib * GiB
      /\ gib * GiB < Word => (gib * GiB) % Word = gib * GiB
  BY <1>1, Modulo
<1>3. Works.total = Total /\ Works.free = free /\ Total > 0 /\ Total # 0
  BY DiskAssumption DEF Works
<1>4. Below(Works, percent, gib)
         <=> free * 100 <= percent * Total \/ free <= (gib * GiB) % Word
  BY <1>3 DEF Below, AtMost
<1>5. free <= (gib * GiB) % Word => free <= gib * GiB
  BY <1>1, <1>2
<1> QED
  BY <1>2, <1>4, <1>5

\* For every disk and all settings, the worker never refuses or stops at a level that
\* the operator is not shown, and misses none that is shown unless the settings have a
\* watermark that overflows (worker.go:683-695).
THEOREM DiskLevelsMatch == Spec => []LevelsMatchClient
<1>1. ASSUME IInv PROVE LevelsMatchClient
  <2> DEFINE sp == settings["softPercent"]
             hp == settings["hardPercent"]
             sg == settings["softGiB"]
             hg == settings["hardGiB"]
  <2>1. sp \in Percents /\ hp \in Percents /\ sg \in GiBs /\ hg \in GiBs
    BY <1>1 DEF IInv, TypeOK, Typed
  <2>2. hp < sp /\ hg < sg
    BY <1>1, <2>1, DiskAssumption DEF IInv, SettingsAreValid, Valid
  <2>3. free \in Nat /\ free * 100 \in Nat
    BY <1>1, DiskAssumption DEF IInv, TypeOK
  <2>4. /\ Hard(Works) => ClientHard(settings)
        /\ NoWrap(settings) => (ClientHard(settings) => Hard(Works))
    BY <2>1, <2>3, BelowMatches DEF Hard, ClientHard, ClientBelow, NoWrap
  <2>5. LET shown == ClientBelow(settings, "softPercent", "softGiB")
        IN  /\ Soft(Works) => shown
            /\ NoWrap(settings) => (shown => Soft(Works))
    BY <2>1, <2>3, BelowMatches DEF Soft, ClientBelow, NoWrap
  <2>6. /\ hp * Total <= sp * Total /\ hp * Total \in Nat /\ sp * Total \in Nat
        /\ hg * GiB <= sg * GiB /\ hg * GiB \in Nat /\ sg * GiB \in Nat
    BY <2>1, <2>2, Monotone, DiskAssumption
  <2>7. ClientHard(settings) => ClientBelow(settings, "softPercent", "softGiB")
    BY <2>3, <2>6 DEF ClientHard, ClientBelow
  <2> QED
    BY <2>4, <2>5, <2>7 DEF LevelsMatchClient, ClientSoft
<1>2. IInv => LevelsMatchClient
  BY <1>1
<1> QED
  BY <1>2, DiskInvariant, PTL

=============================================================================
