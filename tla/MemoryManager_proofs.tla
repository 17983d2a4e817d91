------------------------ MODULE MemoryManager_proofs ------------------------
(***************************************************************************)
(* What MemoryManager promises of every trim, proved for any set of         *)
(* processes and any grace period, interval and cooldown: the foreground    *)
(* process it knows is spared, so is one that recently was in front, and    *)
(* no process is trimmed twice within the shorter cooldown.                 *)
(*                                                                         *)
(* Each promise compares the code's own record with the truth, which is     *)
(* what the three parts of the inductive invariant relate:                  *)
(*   Focus    current lags behind focused only while an event is waiting;   *)
(*   Grace    the entry of Watched is there and no older than the time      *)
(*            since the daemon saw it come to the front;                    *)
(*   Paced    between walks the time since the last one is no longer than   *)
(*            the time since Watched was trimmed, and during a walk that    *)
(*            has not reached Watched the latter exceeds the cooldown.      *)
(***************************************************************************)
EXTENDS MemoryManager, TLAPS

Focus == ~event => current = focused

Grace ==
  gained < GracePeriod =>
    Watched \in DOMAIN history /\ history[Watched] <= gained

Paced ==
  /\ ~walking => rest <= trimmed
  /\ Watched \in scan => trimmed >= Cooldown(Critical)

IInv == TypeOK /\ Focus /\ Grace /\ Paced

----------------------------------------------------------------------------
(* The numbers: the cooldown under critical load is the shortest one, and   *)
(* the cap Rested hides none of them.                                       *)
LEMMA Cooldowns ==
  ASSUME NEW l \in 0..100
  PROVE  /\ Cooldown(Critical) \in Nat /\ Cooldown(l) \in Nat
         /\ Cooldown(Critical) <= Cooldown(l)
         /\ Rested \in Nat /\ Expired \in Nat
BY MemoryAssumption DEF Cooldown, Later, Rested, Expired, Critical

(* An age grows, and by no more than a tick. *)
LEMMA OlderGrows ==
  ASSUME NEW cap \in Nat, NEW age \in 0..cap
  PROVE  /\ Older(age, cap) \in 0..cap
         /\ age <= Older(age, cap)
         /\ Older(age, cap) <= age + 1
         /\ Older(age, cap) < cap => Older(age, cap) = age + 1
BY DEF Older

(* Of two ages under one cap the younger stays the younger. *)
LEMMA OlderMonotone ==
  ASSUME NEW cap \in Nat, NEW a \in 0..cap, NEW b \in 0..cap, a <= b
  PROVE  Older(a, cap) <= Older(b, cap)
BY DEF Older

(* What entering the foreground process fg and cleaning up afterwards leave *)
(* of the history h: fg's entry is new, and no entry within the grace       *)
(* period is lost or made older.                                            *)
LEMMA Entered ==
  ASSUME TypeOK, NEW fg \in Process \cup {NoPid}
  PROVE  LET h == Cleaned(Touched(history, fg), fg) IN
         /\ DOMAIN h \subseteq Process
         /\ \A p \in DOMAIN h : h[p] \in Age(Expired)
         /\ fg # NoPid => fg \in DOMAIN h /\ h[fg] = 0
         /\ \A p \in DOMAIN history :
              history[p] <= GracePeriod =>
                p \in DOMAIN h /\ h[p] <= history[p]
<1> DEFINE T == Touched(history, fg)
           h == Cleaned(T, fg)
<1>1. /\ DOMAIN T \subseteq Process
      /\ \A p \in DOMAIN T : T[p] \in Age(Expired)
      /\ fg # NoPid => fg \in DOMAIN T /\ T[fg] = 0
      /\ \A p \in DOMAIN history : p \in DOMAIN T /\ T[p] <= history[p]
  <2>1. 0 \in Age(Expired) /\ \A n \in Age(Expired) : 0 <= n /\ n <= n
    BY MemoryAssumption DEF Age, Expired
  <2>2. CASE fg = NoPid
    BY <2>1, <2>2 DEF Touched, TypeOK
  <2>3. CASE fg # NoPid
    BY <2>1, <2>3 DEF Touched, TypeOK
  <2> QED BY <2>2, <2>3
<1>2. /\ DOMAIN h = {q \in DOMAIN T : q = fg \/ T[q] <= GracePeriod}
      /\ \A p \in DOMAIN h : h[p] = T[p]
  BY DEF Cleaned
<1>3. ASSUME NEW p \in DOMAIN history, history[p] <= GracePeriod
      PROVE  p \in DOMAIN h /\ h[p] <= history[p]
  <2>1. p \in DOMAIN T /\ T[p] \in Nat /\ T[p] <= history[p] /\ history[p] \in Nat
    BY <1>1 DEF TypeOK, Age
  <2>2. T[p] <= GracePeriod
    BY <1>3, <2>1, MemoryAssumption
  <2> QED BY <1>2, <2>1, <2>2
<1> QED BY <1>1, <1>2, <1>3

----------------------------------------------------------------------------
(* Every step preserves each part. *)

LEMMA TypeStep == TypeOK /\ [Next]_vars => TypeOK'
<1> SUFFICES ASSUME TypeOK, [Next]_vars PROVE TypeOK'
  OBVIOUS
<1>0. /\ Rested \in Nat /\ Expired \in Nat
      /\ 0 \in Age(Expired) /\ 0 \in Age(Rested)
  BY Cooldowns DEF Age
<1>1. CASE OnForegroundProcessChanged
  <2>1. /\ DOMAIN history' \subseteq Process
        /\ \A p \in DOMAIN history' : history'[p] \in Age(Expired)
    BY <1>1, Entered DEF OnForegroundProcessChanged, TypeOK
  <2> QED BY <1>0, <1>1, <2>1 DEF setting, OnForegroundProcessChanged, TypeOK
<1>2. CASE OnHousekeeping
  <2>1. /\ DOMAIN history' \subseteq Process
        /\ \A p \in DOMAIN history' : history'[p] \in Age(Expired)
    BY <1>2, Entered DEF OnHousekeeping, TypeOK
  <2>2. purge' \in BOOLEAN
    BY <1>2, Zenon DEF OnHousekeeping
  <2> QED BY <1>2, <2>1, <2>2 DEF OnHousekeeping, world, setting, record, TypeOK
<1>3. ASSUME NEW p \in scan, Trims(p) PROVE TypeOK'
  BY <1>0, <1>3 DEF Trims, world, setting, TypeOK
<1>4. ASSUME NEW p \in scan, Passes(p) PROVE TypeOK'
  BY <1>4 DEF Passes, world, setting, record, TypeOK
<1>5. CASE FinishWalk
  BY <1>0, <1>5 DEF FinishWalk, world, setting, record, TypeOK
<1>6. ASSUME NEW p \in Process, UserSwitches(p) PROVE TypeOK'
  BY <1>6 DEF UserSwitches, manager, setting, record, TypeOK
<1>7. CASE LoadChanges
  BY <1>7 DEF LoadChanges, manager, setting, record, TypeOK
<1>8. CASE SourceChanges
  <2>1. is_ac' \in BOOLEAN
    BY <1>8, Zenon DEF SourceChanges
  <2> QED BY <1>8, <2>1 DEF SourceChanges, manager, record, TypeOK
<1>9. CASE Tick
  <2>1. \A n \in Age(Expired) : Older(n, Expired) \in Age(Expired)
    BY <1>0, OlderGrows DEF Age
  <2>2. \A n \in Age(Rested) : Older(n, Rested) \in Age(Rested)
    BY <1>0, OlderGrows DEF Age
  <2>3. /\ DOMAIN history' \subseteq Process
        /\ \A p \in DOMAIN history' : history'[p] \in Age(Expired)
    BY <1>9, <2>1 DEF Tick, TypeOK
  <2> QED BY <1>9, <2>1, <2>2, <2>3 DEF Tick, world, setting, TypeOK
<1>10. CASE UNCHANGED vars
  BY <1>10 DEF vars, manager, world, setting, record, TypeOK
<1>11. CASE SameForeground
  BY <1>11 DEF SameForeground, manager, setting, record, TypeOK
<1>12. CASE SetPaused
  <2>1. paused' \in BOOLEAN
    BY <1>12, Zenon DEF SetPaused
  <2> QED BY <1>12, <2>1 DEF SetPaused, manager, record, TypeOK
<1> QED BY <1>1, <1>2, <1>3, <1>4, <1>5, <1>6, <1>7, <1>8, <1>9, <1>10, <1>11, <1>12 DEF Next

LEMMA FocusStep == Focus /\ [Next]_vars => Focus'
BY DEF Focus, Next, OnForegroundProcessChanged, SameForeground, SetPaused, OnHousekeeping,
       Trims, Passes, FinishWalk, UserSwitches, LoadChanges, SourceChanges, Tick, vars, manager, world, record

LEMMA GraceStep == TypeOK /\ Grace /\ [Next]_vars => Grace'
<1> SUFFICES ASSUME TypeOK, Grace, [Next]_vars PROVE Grace'
  OBVIOUS
<1>0. /\ gained \in Nat /\ GracePeriod \in Nat /\ Expired \in Nat
      /\ Watched # NoPid
      /\ \A p \in DOMAIN history : history[p] \in 0..Expired
  BY MemoryAssumption DEF TypeOK, Age, Expired
<1>1. CASE OnForegroundProcessChanged
  <2>1. CASE focused = Watched
    <3>1. Watched \in DOMAIN history' /\ history'[Watched] = 0 /\ gained' = 0
      BY <1>0, <1>1, <2>1, Entered DEF OnForegroundProcessChanged, TypeOK
    <3> QED BY <3>1 DEF Grace
  <2>2. ASSUME focused # Watched, gained < GracePeriod
        PROVE  Watched \in DOMAIN history' /\ history'[Watched] <= gained
    <3>1. /\ Watched \in DOMAIN history /\ history[Watched] \in Nat
          /\ history[Watched] <= gained /\ history[Watched] <= GracePeriod
      BY <1>0, <2>2 DEF Grace
    <3>2. /\ Watched \in DOMAIN history' /\ history'[Watched] <= history[Watched]
          /\ history'[Watched] \in Nat
      BY <1>1, <3>1, Entered DEF OnForegroundProcessChanged, TypeOK, Age
    <3> QED BY <1>0, <3>1, <3>2
  <2>3. focused # Watched => gained' = gained
    BY <1>1 DEF OnForegroundProcessChanged
  <2> QED BY <2>1, <2>2, <2>3 DEF Grace
<1>2. CASE OnHousekeeping
  <2>1. gained' = gained
    BY <1>2 DEF OnHousekeeping, record
  <2>2. ASSUME gained < GracePeriod
        PROVE  Watched \in DOMAIN history' /\ history'[Watched] <= gained
    <3>1. /\ Watched \in DOMAIN history /\ history[Watched] \in Nat
          /\ history[Watched] <= gained /\ history[Watched] <= GracePeriod
      BY <1>0, <2>2 DEF Grace
    <3>2. /\ Watched \in DOMAIN history' /\ history'[Watched] <= history[Watched]
          /\ history'[Watched] \in Nat
      BY <1>2, <3>1, Entered DEF OnHousekeeping, TypeOK, Age
    <3> QED BY <1>0, <3>1, <3>2
  <2> QED BY <2>1, <2>2 DEF Grace
<1>3. CASE Tick
  <2> SUFFICES ASSUME gained' < GracePeriod
               PROVE  Watched \in DOMAIN history' /\ history'[Watched] <= gained'
    BY DEF Grace
  <2>1. gained' = gained + 1 /\ gained < GracePeriod
    BY <1>0, <1>3 DEF Tick, Older, Expired
  <2>2. Watched \in DOMAIN history /\ history[Watched] <= gained
    BY <2>1 DEF Grace
  <2>3. /\ Watched \in DOMAIN history'
        /\ history'[Watched] = Older(history[Watched], Expired)
    BY <1>3, <2>2 DEF Tick
  <2>4. Older(history[Watched], Expired) <= history[Watched] + 1
    BY <1>0, <2>2, OlderGrows
  <2> QED BY <1>0, <2>1, <2>2, <2>3, <2>4 DEF Older
<1>4. CASE UNCHANGED <<history, gained>>
  BY <1>4 DEF Grace
<1> QED BY <1>1, <1>2, <1>3, <1>4
        DEF Next, SameForeground, SetPaused, Trims, Passes, FinishWalk, UserSwitches,
            LoadChanges, SourceChanges, vars, manager, record

LEMMA PacedStep == TypeOK /\ Paced /\ [Next]_vars => Paced'
<1> SUFFICES ASSUME TypeOK, Paced, [Next]_vars PROVE Paced'
  OBVIOUS
<1>0. /\ Cooldown(Critical) \in Nat /\ Cooldown(Critical) <= Cooldown(load)
      /\ Cooldown(load) \in Nat
      /\ Rested \in Nat /\ rest \in 0..Rested /\ trimmed \in 0..Rested
  BY Cooldowns, MemoryAssumption DEF TypeOK, Age
<1>1. CASE OnHousekeeping
  BY <1>0, <1>1 DEF OnHousekeeping, Paced, record
<1>2. ASSUME NEW p \in scan, Trims(p) PROVE Paced'
  BY <1>0, <1>2 DEF Trims, Paced, TypeOK
<1>3. ASSUME NEW p \in scan, Passes(p) PROVE Paced'
  BY <1>3 DEF Passes, Paced, record
<1>4. CASE FinishWalk
  BY <1>0, <1>4 DEF FinishWalk, Paced, record
<1>5. CASE Tick
  <2>1. rest' = Older(rest, Rested) /\ trimmed' = Older(trimmed, Rested)
    BY <1>5 DEF Tick
  <2>2. trimmed <= trimmed' /\ trimmed' \in Nat
    BY <1>0, <2>1, OlderGrows
  <2>3. rest <= trimmed => rest' <= trimmed'
    BY <1>0, <2>1, OlderMonotone
  <2> QED BY <1>0, <1>5, <2>2, <2>3 DEF Tick, Paced
<1>6. CASE UNCHANGED <<rest, trimmed, walking, scan>>
  BY <1>6 DEF Paced
<1> QED BY <1>1, <1>2, <1>3, <1>4, <1>5, <1>6
        DEF Next, OnForegroundProcessChanged, SameForeground, SetPaused, UserSwitches, LoadChanges, SourceChanges, vars,
            manager, record

----------------------------------------------------------------------------
(* The theorems. *)

(* Every reachable state satisfies the inductive invariant. *)
THEOREM MemoryInvariance == Spec => []IInv
<1>1. Init => IInv
  <2> SUFFICES ASSUME Init PROVE IInv
    OBVIOUS
  <2>1. /\ Rested \in Nat /\ Expired \in Nat /\ GracePeriod < Expired
        /\ Cooldown(Critical) \in Nat /\ GracePeriod \in Nat
    BY Cooldowns, MemoryAssumption DEF Expired
  <2>2. walking \in BOOLEAN /\ purge \in BOOLEAN /\ is_ac \in BOOLEAN
        /\ paused \in BOOLEAN /\ event \in BOOLEAN
    BY Zenon DEF Init
  <2>3. TypeOK
    BY <2>1, <2>2 DEF Init, TypeOK, Age
  <2>4. Focus /\ Grace /\ Paced
    BY <2>1 DEF Init, Focus, Grace, Paced
  <2> QED BY <2>3, <2>4 DEF IInv
<1>2. IInv /\ [Next]_vars => IInv'
  BY TypeStep, FocusStep, GraceStep, PacedStep DEF IInv
<1> QED BY <1>1, <1>2, PTL DEF Spec

(* Every variable keeps its type. *)
THEOREM MemoryTypeCorrect == Spec => []TypeOK
BY MemoryInvariance, PTL DEF IInv

(* The foreground process is trimmed only if it came to the front after the *)
(* main thread last looked: current is compared with it at every process.   *)
THEOREM ForegroundIsSpared == Spec => KnownForegroundSpared
<1>1. IInv /\ [Next]_vars => [TrimsWatched /\ focused = Watched => event]_vars
  BY DEF IInv, Focus, TrimsWatched, Trims, is_pid_protected
<1> QED BY <1>1, MemoryInvariance, PTL DEF Spec, KnownForegroundSpared

(* A process the daemon saw come to the front keeps its working set for the *)
(* grace period, whatever is switched to and cleaned up in between.         *)
THEOREM GraceIsKept == Spec => GraceAfterFocus
<1>1. IInv /\ [Next]_vars => [TrimsWatched => gained >= GracePeriod]_vars
  <2> SUFFICES ASSUME IInv, TrimsWatched PROVE gained >= GracePeriod
    OBVIOUS
  <2>1. ~(Watched \in DOMAIN history /\ history[Watched] < GracePeriod)
    BY DEF TrimsWatched, Trims, is_pid_protected
  <2>2. /\ gained \in Nat /\ GracePeriod \in Nat
        /\ \A p \in DOMAIN history : history[p] \in Nat
    BY MemoryAssumption DEF IInv, TypeOK, Age, Expired
  <2> QED BY <2>1, <2>2 DEF IInv, Grace
<1> QED BY <1>1, MemoryInvariance, PTL DEF Spec, GraceAfterFocus

(* No process is trimmed twice within the cooldown of a critical load.      *)
THEOREM TrimsArePaced == Spec => NoThrashing
<1>1. IInv /\ [Next]_vars => [TrimsWatched => trimmed >= Cooldown(Critical)]_vars
  BY DEF IInv, Paced, TrimsWatched, Trims
<1> QED BY <1>1, MemoryInvariance, PTL DEF Spec, NoThrashing

=============================================================================
