---------------------------- MODULE LycheeProofs ----------------------------
(***************************************************************************)
(* Proofs about LycheeInstall: its types, that a binary found good stays   *)
(* the pinned one, and that a waiter outlasts every install of a living    *)
(* holder.                                                                 *)
(*                                                                         *)
(* The lock directory names nobody, so the first step is that it has       *)
(* exactly one owner, and that only the owner is inside (OwnerInv).  From  *)
(* it follows that nobody replaces a good binary (BinaryInv).  For the     *)
(* waiters, Used counts the time the owner's stage stands for; it bounds   *)
(* the waits that began under this owner (TimeInv), and the arithmetic of  *)
(* installLockTimeoutMs bounds it.                                         *)
(***************************************************************************)
EXTENDS LycheeInstall, TLAPS

Fetching == {"downloading", "backoff"}
Replacing == Fetching \cup {"installing", "removing", "renaming"}

---------------------------------------------------------------------------
(* The inductive invariant. *)

OwnerInv ==
  /\ lock = (owner # Nobody)
  /\ owner \in Process => pc[owner] \in Holding \cup {"killed"}
  /\ \A p \in Process : pc[p] \in Holding => owner = p

BinaryInv ==
  \A p \in Process :
    /\ pc[p] \in Replacing => binary # "good"
    /\ pc[p] \in {"installing", "removing", "renaming"} => fetched[p] # "nothing"

\* The clocks of a process that is not at work, and how far those of one that is can get.
ClockInv ==
  \A p \in Process :
    /\ pc[p] # "locking" => waited[p] = 0
    /\ pc[p] \notin Holding => attempt[p] = 0 /\ worked[p] = 0
    /\ pc[p] = "checking" => attempt[p] = 0
    /\ attempt[p] = 0 => elapsed[p] = 0
    /\ pc[p] \in Replacing => attempt[p] > 0
    /\ pc[p] = "backoff" => attempt[p] < Attempts /\ elapsed[p] <= Delay(attempt[p])
    /\ pc[p] # "backoff" => elapsed[p] <= DownloadTimeout

\* The longest process q can have held the lock, from where it stands.
Downloads(n) == n * DownloadTimeout + n * (n - 1) * HalfDelay
Used(q) ==
  IF attempt[q] = 0 THEN worked[q]
  ELSE Downloads(attempt[q]) + elapsed[q] + worked[q]
       - (IF pc[q] = "backoff" THEN 0 ELSE DownloadTimeout)

TimeInv ==
  \A p \in Process :
    pc[p] = "locking" /\ owner \in Process /\ p \notin overtaken =>
      pc[owner] = "killed" \/ waited[p] <= Used(owner)

Inv == TypeOK /\ OwnerInv /\ BinaryInv /\ RunsPinned /\ ClockInv /\ TimeInv

---------------------------------------------------------------------------
(* Arithmetic. *)

\* One more attempt adds the delay before it and its timeout.
LEMMA NextAttempt ==
  ASSUME NEW n \in Nat
  PROVE  Downloads(n + 1) = Downloads(n) + Delay(n) + DownloadTimeout
  <1>1. DownloadTimeout \in Nat /\ HalfDelay \in Nat
    BY LycheeAssumption
  <1>2. (n + 1) * DownloadTimeout = n * DownloadTimeout + DownloadTimeout
    BY <1>1
  <1>3. (n + 1) * n = n * (n - 1) + 2 * n
    OBVIOUS
  <1>4. n * (n - 1) \in Int
    OBVIOUS
  <1>5. (n * (n - 1) + 2 * n) * HalfDelay = n * (n - 1) * HalfDelay + 2 * HalfDelay * n
    BY <1>1, <1>4
  <1>6. (n + 1) * ((n + 1) - 1) * HalfDelay = n * (n - 1) * HalfDelay + Delay(n)
    BY <1>3, <1>5 DEF Delay
  <1> QED
    BY <1>1, <1>2, <1>6 DEF Downloads, Delay

\* The time of n attempts grows with n.
LEMMA DownloadsGrow ==
  ASSUME NEW n \in Nat, NEW k \in Nat, n <= k, n > 0
  PROVE  Downloads(n) \in Nat /\ Downloads(n) <= Downloads(k)
  <1>1. DownloadTimeout \in Nat /\ HalfDelay \in Nat
    BY LycheeAssumption
  <1>2. PICK d \in Nat : k = n + d
    <2>1. k - n \in Nat /\ k = n + (k - n)
      OBVIOUS
    <2> QED
      BY <2>1
  <1>3. (n + d) * DownloadTimeout = n * DownloadTimeout + d * DownloadTimeout
    BY <1>1
  <1>4. d * DownloadTimeout \in Nat /\ n * DownloadTimeout \in Nat
    BY <1>1
  <1>5. n * (n - 1) \in Nat
    OBVIOUS
  <1>6. d * (2 * n + d - 1) \in Nat
    <2>1. 2 * n + d - 1 \in Nat
      OBVIOUS
    <2> QED
      BY <2>1
  <1>7. k * (k - 1) = n * (n - 1) + d * (2 * n + d - 1)
    BY <1>2
  <1>8. (n * (n - 1) + d * (2 * n + d - 1)) * HalfDelay
           = n * (n - 1) * HalfDelay + d * (2 * n + d - 1) * HalfDelay
    BY <1>1, <1>5, <1>6
  <1>9. n * (n - 1) * HalfDelay \in Nat /\ d * (2 * n + d - 1) * HalfDelay \in Nat
    BY <1>1, <1>5, <1>6
  <1>10. k * (k - 1) * HalfDelay = n * (n - 1) * HalfDelay + d * (2 * n + d - 1) * HalfDelay
    BY <1>7, <1>8
  <1> DEFINE a == n * DownloadTimeout
             b == n * (n - 1) * HalfDelay
             a2 == k * DownloadTimeout
             b2 == k * (k - 1) * HalfDelay
  <1>11. a \in Nat /\ b \in Nat /\ a2 \in Nat /\ b2 \in Nat /\ a <= a2 /\ b <= b2
    BY <1>2, <1>3, <1>4, <1>9, <1>10
  <1>12. Downloads(n) = a + b /\ Downloads(k) = a2 + b2
    BY DEF Downloads
  <1> HIDE DEF a, b, a2, b2
  <1> QED
    BY <1>11, <1>12


\* The lock is waited for at least as long as all attempts, their delays and the rest take.
LEMMA TimeoutCovers == LockTimeout \in Nat /\ Downloads(Attempts) + LockGrace <= LockTimeout
  <1>1. Attempts \in Nat /\ Attempts > 0 /\ LockGrace \in Nat /\ LockOption \in Nat
    BY LycheeAssumption
  <1>2. Downloads(Attempts) \in Nat
    BY <1>1, DownloadsGrow
  <1>3. MinLockTimeout = Downloads(Attempts) + LockGrace
    BY DEF MinLockTimeout, InstallTime, Downloads
  <1> QED
    BY <1>1, <1>2, <1>3 DEF LockTimeout

---------------------------------------------------------------------------
(* The invariant holds at first and is kept by every step. *)

LEMMA InitInv == Init => Inv
  <1> SUFFICES ASSUME Init PROVE Inv
    OBVIOUS
  <1>1. TypeOK
    <2>1. "idle" \in Places
      BY DEF Places
    <2>2. pc \in [Process -> Places] /\ fetched \in [Process -> {"nothing", "bad", "good"}]
      BY <2>1 DEF Init
    <2>3. 0 \in 0 .. Attempts /\ 0 \in 0 .. LockGrace /\ 0 \in 0 .. LockTimeout + 1
      BY LycheeAssumption, TimeoutCovers
    <2>4. /\ attempt \in [Process -> 0 .. Attempts] /\ elapsed \in [Process -> Nat]
          /\ worked \in [Process -> 0 .. LockGrace]
          /\ waited \in [Process -> 0 .. LockTimeout + 1]
      BY <2>3 DEF Init
    <2>5. binary \in {"missing", "bad", "good"} /\ lock \in BOOLEAN /\ failing \subseteq Process
      BY DEF Init
    <2>6. owner \in Process \cup {Nobody} /\ overtaken \subseteq Process
      BY DEF Init
    <2>7. kills \in 0 .. MaxKills
      BY LycheeAssumption DEF Init
    <2> QED
      BY <2>2, <2>4, <2>5, <2>6, <2>7 DEF TypeOK
  <1>2. /\ lock = FALSE /\ owner = Nobody /\ Nobody \notin Process /\ DownloadTimeout \in Nat
        /\ \A p \in Process : /\ pc[p] = "idle" /\ attempt[p] = 0 /\ elapsed[p] = 0
                              /\ worked[p] = 0 /\ waited[p] = 0
    BY LycheeAssumption DEF Init
  <1>3. OwnerInv /\ BinaryInv /\ RunsPinned
    BY <1>2 DEF OwnerInv, BinaryInv, RunsPinned, Holding, Working, Replacing, Fetching
  <1>4. ClockInv /\ TimeInv
    BY <1>2 DEF ClockInv, TimeInv, Holding, Working, Replacing, Fetching
  <1> QED
    BY <1>1, <1>3, <1>4 DEF Inv

\* Every step keeps the types.
LEMMA TypeStep == TypeOK /\ BinaryInv /\ ClockInv /\ [Next]_vars => TypeOK'
  <1> SUFFICES ASSUME TypeOK, BinaryInv, ClockInv, [Next]_vars PROVE TypeOK'
    OBVIOUS
  <1> USE DEF TypeOK, Places, Holding, Working, Over
  <1>1. ASSUME NEW p \in Process, StartFails(p) PROVE TypeOK'
    BY <1>1, LycheeAssumption, TimeoutCovers DEF StartFails, Goto, cache, clocks, history
  <1>2. ASSUME NEW p \in Process, Start(p) PROVE TypeOK'
    BY <1>2, LycheeAssumption, TimeoutCovers DEF Start, Goto, cache, clocks, history
  <1>3. ASSUME NEW p \in Process, Lock(p) PROVE TypeOK'
    BY <1>3, LycheeAssumption, TimeoutCovers DEF Lock, Goto, cache, clocks, history
  <1>4. ASSUME NEW p \in Process, LockFails(p) PROVE TypeOK'
    BY <1>4, LycheeAssumption, TimeoutCovers DEF LockFails, Goto, Forget, cache, clocks, history
  <1>5. ASSUME NEW p \in Process, GiveUp(p) PROVE TypeOK'
    BY <1>5, LycheeAssumption, TimeoutCovers DEF GiveUp, Goto, Forget, cache, clocks, history
  <1>6. ASSUME NEW p \in Process, Check(p) PROVE TypeOK'
    BY <1>6, LycheeAssumption, TimeoutCovers DEF Check, Goto, cache, clocks, history
  <1>7. ASSUME NEW p \in Process, Release(p) PROVE TypeOK'
    <2>1. pc' \in [Process -> Places]
      BY <1>7 DEF Release, Goto
    <2>2. /\ attempt' \in [Process -> 0 .. Attempts] /\ elapsed' \in [Process -> Nat]
          /\ worked' \in [Process -> 0 .. LockGrace]
          /\ waited' \in [Process -> 0 .. LockTimeout + 1]
      BY <1>7, LycheeAssumption, TimeoutCovers DEF Release, Forget
    <2>3. /\ fetched' \in [Process -> {"nothing", "bad", "good"}]
          /\ failing' \subseteq Process /\ overtaken' \subseteq Process
      BY <1>7 DEF Release, Forget
    <2> QED
      BY <1>7, <2>1, <2>2, <2>3 DEF Release
  <1>8. ASSUME NEW p \in Process, Verify(p) PROVE TypeOK'
    BY <1>8, LycheeAssumption, TimeoutCovers DEF Verify, Goto, cache, clocks, history
  <1>9. ASSUME NEW p \in Process, Spawn(p) PROVE TypeOK'
    BY <1>9, LycheeAssumption, TimeoutCovers DEF Spawn, Goto, cache, clocks, history
  <1>10. ASSUME NEW p \in Process, Exit(p) PROVE TypeOK'
    BY <1>10, LycheeAssumption, TimeoutCovers DEF Exit, Goto, cache, clocks, history
  <1>11. ASSUME NEW p \in Process, Fetch(p) PROVE TypeOK'
    BY <1>11, LycheeAssumption, TimeoutCovers DEF Fetch, Goto, cache, clocks, history
  <1>12. ASSUME NEW p \in Process, FetchFails(p) PROVE TypeOK'
    BY <1>12, LycheeAssumption, TimeoutCovers DEF FetchFails, Goto, Unwind, cache, clocks, history
  <1>13. ASSUME NEW p \in Process, Retry(p) PROVE TypeOK'
    <2>1. attempt[p] + 1 \in 0 .. Attempts
      BY <1>13, LycheeAssumption DEF Retry, ClockInv
    <2> QED
      BY <1>13, <2>1 DEF Retry, Goto, cache, history
  <1>14. ASSUME NEW p \in Process, Accept(p) PROVE TypeOK'
    BY <1>14, LycheeAssumption, TimeoutCovers DEF Accept, Goto, cache, clocks, history
  <1>15. ASSUME NEW p \in Process, Remove(p) PROVE TypeOK'
    BY <1>15, LycheeAssumption, TimeoutCovers DEF Remove, Goto, cache, clocks, history
  <1>16. ASSUME NEW p \in Process, Rename(p) PROVE TypeOK'
    <2>1. fetched[p] \in {"bad", "good"}
      BY <1>16 DEF Rename, BinaryInv
    <2> QED
      BY <1>16, <2>1 DEF Rename, Goto, clocks, history
  <1>17. ASSUME NEW p \in Process, InstallFails(p) PROVE TypeOK'
    BY <1>17, LycheeAssumption, TimeoutCovers DEF InstallFails, Goto, Unwind, cache, clocks, history
  <1>18. ASSUME NEW p \in Process, Cleanup(p) PROVE TypeOK'
    BY <1>18, LycheeAssumption, TimeoutCovers DEF Cleanup, Goto, cache, clocks, history
  <1>19. ASSUME NEW p \in Process, Kill(p) PROVE TypeOK'
    BY <1>19, LycheeAssumption, TimeoutCovers DEF Kill, Goto, Forget, cache, clocks, history
  <1>20. CASE RemoveStaleLock
    BY <1>20, LycheeAssumption, TimeoutCovers DEF RemoveStaleLock, clocks
  <1>21. CASE Tick
    BY <1>21, LycheeAssumption, TimeoutCovers DEF Tick, MayWait, cache, history
  <1>22. CASE UNCHANGED vars
    BY <1>22 DEF vars, cache, clocks, history
  <1> QED
    BY <1>1, <1>2, <1>3, <1>4, <1>5, <1>6, <1>7, <1>8, <1>9, <1>10, <1>11, <1>12, <1>13, <1>14, <1>15, <1>16, <1>17, <1>18, <1>19, <1>20, <1>21, <1>22 DEF Next, Step, Finished

\* Whoever is inside made the lock, and nobody else is.
LEMMA OwnerStep == TypeOK /\ OwnerInv /\ [Next]_vars => OwnerInv'
  <1> SUFFICES ASSUME TypeOK, OwnerInv, [Next]_vars PROVE OwnerInv'
    OBVIOUS
  <1> USE DEF TypeOK, OwnerInv, Places, Holding, Working, Over
  <1>1. ASSUME NEW p \in Process, StartFails(p) PROVE OwnerInv'
    BY <1>1, LycheeAssumption DEF StartFails, Goto, cache, clocks, history
  <1>2. ASSUME NEW p \in Process, Start(p) PROVE OwnerInv'
    BY <1>2, LycheeAssumption DEF Start, Goto, cache, clocks, history
  <1>3. ASSUME NEW p \in Process, Lock(p) PROVE OwnerInv'
    BY <1>3, LycheeAssumption DEF Lock, Goto, cache, clocks, history
  <1>4. ASSUME NEW p \in Process, LockFails(p) PROVE OwnerInv'
    BY <1>4, LycheeAssumption DEF LockFails, Goto, Forget, cache, clocks, history
  <1>5. ASSUME NEW p \in Process, GiveUp(p) PROVE OwnerInv'
    BY <1>5, LycheeAssumption DEF GiveUp, Goto, Forget, cache, clocks, history
  <1>6. ASSUME NEW p \in Process, Check(p) PROVE OwnerInv'
    BY <1>6, LycheeAssumption DEF Check, Goto, cache, clocks, history
  <1>7. ASSUME NEW p \in Process, Release(p) PROVE OwnerInv'
    BY <1>7, LycheeAssumption DEF Release, Goto, Forget, cache, clocks, history
  <1>8. ASSUME NEW p \in Process, Verify(p) PROVE OwnerInv'
    BY <1>8, LycheeAssumption DEF Verify, Goto, cache, clocks, history
  <1>9. ASSUME NEW p \in Process, Spawn(p) PROVE OwnerInv'
    BY <1>9, LycheeAssumption DEF Spawn, Goto, cache, clocks, history
  <1>10. ASSUME NEW p \in Process, Exit(p) PROVE OwnerInv'
    BY <1>10, LycheeAssumption DEF Exit, Goto, cache, clocks, history
  <1>11. ASSUME NEW p \in Process, Fetch(p) PROVE OwnerInv'
    BY <1>11, LycheeAssumption DEF Fetch, Goto, cache, clocks, history
  <1>12. ASSUME NEW p \in Process, FetchFails(p) PROVE OwnerInv'
    BY <1>12, LycheeAssumption DEF FetchFails, Goto, Unwind, cache, clocks, history
  <1>13. ASSUME NEW p \in Process, Retry(p) PROVE OwnerInv'
    BY <1>13, LycheeAssumption DEF Retry, Goto, cache, clocks, history
  <1>14. ASSUME NEW p \in Process, Accept(p) PROVE OwnerInv'
    BY <1>14, LycheeAssumption DEF Accept, Goto, cache, clocks, history
  <1>15. ASSUME NEW p \in Process, Remove(p) PROVE OwnerInv'
    BY <1>15, LycheeAssumption DEF Remove, Goto, cache, clocks, history
  <1>16. ASSUME NEW p \in Process, Rename(p) PROVE OwnerInv'
    BY <1>16, LycheeAssumption DEF Rename, Goto, cache, clocks, history
  <1>17. ASSUME NEW p \in Process, InstallFails(p) PROVE OwnerInv'
    BY <1>17, LycheeAssumption DEF InstallFails, Goto, Unwind, cache, clocks, history
  <1>18. ASSUME NEW p \in Process, Cleanup(p) PROVE OwnerInv'
    BY <1>18, LycheeAssumption DEF Cleanup, Goto, cache, clocks, history
  <1>19. ASSUME NEW p \in Process, Kill(p) PROVE OwnerInv'
    BY <1>19, LycheeAssumption DEF Kill, Goto, Forget, cache, clocks, history
  <1>20. CASE RemoveStaleLock
    BY <1>20, LycheeAssumption DEF RemoveStaleLock, clocks
  <1>21. CASE Tick
    BY <1>21, LycheeAssumption DEF Tick, MayWait, cache, history
  <1>22. CASE UNCHANGED vars
    BY <1>22 DEF vars, cache, clocks, history
  <1> QED
    BY <1>1, <1>2, <1>3, <1>4, <1>5, <1>6, <1>7, <1>8, <1>9, <1>10, <1>11, <1>12, <1>13, <1>14, <1>15, <1>16, <1>17, <1>18, <1>19, <1>20, <1>21, <1>22 DEF Next, Step, Finished

\* Only the owner touches the binary, and never a good one.
LEMMA BinaryStep == TypeOK /\ OwnerInv /\ BinaryInv /\ RunsPinned /\ [Next]_vars => (BinaryInv /\ RunsPinned)'
  <1> SUFFICES ASSUME TypeOK, OwnerInv, BinaryInv, RunsPinned, [Next]_vars PROVE (BinaryInv /\ RunsPinned)'
    OBVIOUS
  <1> USE DEF TypeOK, OwnerInv, BinaryInv, RunsPinned, Replacing, Fetching, Places, Holding, Working
  <1>1. ASSUME NEW p \in Process, StartFails(p) PROVE (BinaryInv /\ RunsPinned)'
    BY <1>1 DEF StartFails, Goto, cache, clocks, history
  <1>2. ASSUME NEW p \in Process, Start(p) PROVE (BinaryInv /\ RunsPinned)'
    BY <1>2 DEF Start, Goto, cache, clocks, history
  <1>3. ASSUME NEW p \in Process, Lock(p) PROVE (BinaryInv /\ RunsPinned)'
    BY <1>3 DEF Lock, Goto, cache, clocks, history
  <1>4. ASSUME NEW p \in Process, LockFails(p) PROVE (BinaryInv /\ RunsPinned)'
    BY <1>4 DEF LockFails, Goto, Forget, cache, clocks, history
  <1>5. ASSUME NEW p \in Process, GiveUp(p) PROVE (BinaryInv /\ RunsPinned)'
    BY <1>5 DEF GiveUp, Goto, Forget, cache, clocks, history
  <1>6. ASSUME NEW p \in Process, Check(p) PROVE (BinaryInv /\ RunsPinned)'
    BY <1>6 DEF Check, Goto, cache, clocks, history
  <1>7. ASSUME NEW p \in Process, Release(p) PROVE (BinaryInv /\ RunsPinned)'
    BY <1>7 DEF Release, Goto, Forget, cache, clocks, history
  <1>8. ASSUME NEW p \in Process, Verify(p) PROVE (BinaryInv /\ RunsPinned)'
    BY <1>8 DEF Verify, Goto, cache, clocks, history
  <1>9. ASSUME NEW p \in Process, Spawn(p) PROVE (BinaryInv /\ RunsPinned)'
    BY <1>9 DEF Spawn, Goto, cache, clocks, history
  <1>10. ASSUME NEW p \in Process, Exit(p) PROVE (BinaryInv /\ RunsPinned)'
    BY <1>10 DEF Exit, Goto, cache, clocks, history
  <1>11. ASSUME NEW p \in Process, Fetch(p) PROVE (BinaryInv /\ RunsPinned)'
    BY <1>11 DEF Fetch, Goto, cache, clocks, history
  <1>12. ASSUME NEW p \in Process, FetchFails(p) PROVE (BinaryInv /\ RunsPinned)'
    BY <1>12 DEF FetchFails, Goto, Unwind, cache, clocks, history
  <1>13. ASSUME NEW p \in Process, Retry(p) PROVE (BinaryInv /\ RunsPinned)'
    BY <1>13 DEF Retry, Goto, cache, clocks, history
  <1>14. ASSUME NEW p \in Process, Accept(p) PROVE (BinaryInv /\ RunsPinned)'
    BY <1>14 DEF Accept, Goto, cache, clocks, history
  <1>15. ASSUME NEW p \in Process, Remove(p) PROVE (BinaryInv /\ RunsPinned)'
    BY <1>15 DEF Remove, Goto, cache, clocks, history
  <1>16. ASSUME NEW p \in Process, Rename(p) PROVE (BinaryInv /\ RunsPinned)'
    BY <1>16 DEF Rename, Goto, cache, clocks, history
  <1>17. ASSUME NEW p \in Process, InstallFails(p) PROVE (BinaryInv /\ RunsPinned)'
    BY <1>17 DEF InstallFails, Goto, Unwind, cache, clocks, history
  <1>18. ASSUME NEW p \in Process, Cleanup(p) PROVE (BinaryInv /\ RunsPinned)'
    BY <1>18 DEF Cleanup, Goto, cache, clocks, history
  <1>19. ASSUME NEW p \in Process, Kill(p) PROVE (BinaryInv /\ RunsPinned)'
    BY <1>19 DEF Kill, Goto, Forget, cache, clocks, history
  <1>20. CASE RemoveStaleLock
    BY <1>20 DEF RemoveStaleLock, clocks
  <1>21. CASE Tick
    BY <1>21 DEF Tick, MayWait, cache, history
  <1>22. CASE UNCHANGED vars
    BY <1>22 DEF vars, cache, clocks, history
  <1> QED
    BY <1>1, <1>2, <1>3, <1>4, <1>5, <1>6, <1>7, <1>8, <1>9, <1>10, <1>11, <1>12, <1>13, <1>14, <1>15, <1>16, <1>17, <1>18, <1>19, <1>20, <1>21, <1>22 DEF Next, Step, Finished

\* The clocks keep to their bounds.
LEMMA ClockStep == TypeOK /\ ClockInv /\ [Next]_vars => ClockInv'
  <1> SUFFICES ASSUME TypeOK, ClockInv, [Next]_vars PROVE ClockInv'
    OBVIOUS
  <1> USE DEF TypeOK, ClockInv, Replacing, Fetching, Places, Holding, Working, Over
  <1>1. ASSUME NEW p \in Process, StartFails(p) PROVE ClockInv'
    BY <1>1, LycheeAssumption DEF StartFails, Goto, cache, clocks, history
  <1>2. ASSUME NEW p \in Process, Start(p) PROVE ClockInv'
    BY <1>2, LycheeAssumption DEF Start, Goto, cache, clocks, history
  <1>3. ASSUME NEW p \in Process, Lock(p) PROVE ClockInv'
    BY <1>3, LycheeAssumption DEF Lock, Goto, cache, clocks, history
  <1>4. ASSUME NEW p \in Process, LockFails(p) PROVE ClockInv'
    BY <1>4, LycheeAssumption DEF LockFails, Goto, Forget, cache, clocks, history
  <1>5. ASSUME NEW p \in Process, GiveUp(p) PROVE ClockInv'
    BY <1>5, LycheeAssumption DEF GiveUp, Goto, Forget, cache, clocks, history
  <1>6. ASSUME NEW p \in Process, Check(p) PROVE ClockInv'
    BY <1>6, LycheeAssumption DEF Check, Goto, cache, clocks, history
  <1>7. ASSUME NEW p \in Process, Release(p) PROVE ClockInv'
    BY <1>7, LycheeAssumption DEF Release, Goto, Forget, cache, clocks, history
  <1>8. ASSUME NEW p \in Process, Verify(p) PROVE ClockInv'
    BY <1>8, LycheeAssumption DEF Verify, Goto, cache, clocks, history
  <1>9. ASSUME NEW p \in Process, Spawn(p) PROVE ClockInv'
    BY <1>9, LycheeAssumption DEF Spawn, Goto, cache, clocks, history
  <1>10. ASSUME NEW p \in Process, Exit(p) PROVE ClockInv'
    BY <1>10, LycheeAssumption DEF Exit, Goto, cache, clocks, history
  <1>11. ASSUME NEW p \in Process, Fetch(p) PROVE ClockInv'
    BY <1>11, LycheeAssumption DEF Fetch, Goto, cache, clocks, history
  <1>12. ASSUME NEW p \in Process, FetchFails(p) PROVE ClockInv'
    <2>1. 0 <= Delay(attempt[p]) /\ attempt[p] > 0
      BY <1>12, LycheeAssumption DEF FetchFails, Delay
    <2>2. CASE pc'[p] = "backoff"
      BY <1>12, <2>1, <2>2 DEF FetchFails, Goto, Unwind, cache, history
    <2>3. CASE pc'[p] # "backoff"
      BY <1>12, <2>1, <2>3 DEF FetchFails, Goto, Unwind, cache, history
    <2> QED
      BY <2>2, <2>3
  <1>13. ASSUME NEW p \in Process, Retry(p) PROVE ClockInv'
    BY <1>13, LycheeAssumption DEF Retry, Goto, cache, clocks, history
  <1>14. ASSUME NEW p \in Process, Accept(p) PROVE ClockInv'
    BY <1>14, LycheeAssumption DEF Accept, Goto, cache, clocks, history
  <1>15. ASSUME NEW p \in Process, Remove(p) PROVE ClockInv'
    BY <1>15, LycheeAssumption DEF Remove, Goto, cache, clocks, history
  <1>16. ASSUME NEW p \in Process, Rename(p) PROVE ClockInv'
    BY <1>16, LycheeAssumption DEF Rename, Goto, cache, clocks, history
  <1>17. ASSUME NEW p \in Process, InstallFails(p) PROVE ClockInv'
    BY <1>17, LycheeAssumption DEF InstallFails, Goto, Unwind, cache, clocks, history
  <1>18. ASSUME NEW p \in Process, Cleanup(p) PROVE ClockInv'
    BY <1>18, LycheeAssumption DEF Cleanup, Goto, cache, clocks, history
  <1>19. ASSUME NEW p \in Process, Kill(p) PROVE ClockInv'
    BY <1>19, LycheeAssumption DEF Kill, Goto, Forget, cache, clocks, history
  <1>20. CASE RemoveStaleLock
    BY <1>20, LycheeAssumption DEF RemoveStaleLock, clocks
  <1>21. CASE Tick
    <2> SUFFICES ASSUME NEW q \in Process
                 PROVE  /\ pc'[q] # "locking" => waited'[q] = 0
                        /\ pc'[q] \notin Holding => attempt'[q] = 0 /\ worked'[q] = 0
                        /\ pc'[q] = "checking" => attempt'[q] = 0
                        /\ attempt'[q] = 0 => elapsed'[q] = 0
                        /\ pc'[q] \in Replacing => attempt'[q] > 0
                        /\ pc'[q] = "backoff" => attempt'[q] < Attempts
                                                /\ elapsed'[q] <= Delay(attempt'[q])
                        /\ pc'[q] # "backoff" => elapsed'[q] <= DownloadTimeout
      BY DEF Delay
    <2>1. pc' = pc /\ attempt' = attempt /\ MayWait(q)
      BY <1>21 DEF Tick
    <2>2. /\ elapsed'[q] = IF pc[q] \in {"downloading", "backoff"} THEN elapsed[q] + 1
                           ELSE elapsed[q]
          /\ worked'[q] = IF pc[q] \in Working THEN worked[q] + 1 ELSE worked[q]
          /\ pc[q] # "locking" => waited'[q] = waited[q]
      BY <1>21 DEF Tick
    <2>3. Delay(attempt[q]) \in Int /\ elapsed[q] \in Nat /\ DownloadTimeout \in Nat
      BY LycheeAssumption DEF Delay
    <2> QED
      BY <2>1, <2>2, <2>3 DEF MayWait
  <1>22. CASE UNCHANGED vars
    BY <1>22 DEF vars, cache, clocks, history
  <1> QED
    BY <1>1, <1>2, <1>3, <1>4, <1>5, <1>6, <1>7, <1>8, <1>9, <1>10, <1>11, <1>12, <1>13, <1>14, <1>15, <1>16, <1>17, <1>18, <1>19, <1>20, <1>21, <1>22 DEF Next, Step, Finished


\* The time a holder can have used is a natural number, and never more than a waiter's patience.
LEMMA UsedBounds ==
  ASSUME TypeOK, ClockInv, NEW q \in Process
  PROVE  /\ Used(q) \in Nat
         /\ pc[q] \in Holding => Used(q) <= LockTimeout
  <1>1. /\ Attempts \in Nat /\ Attempts > 0 /\ DownloadTimeout \in Nat /\ HalfDelay \in Nat
        /\ LockGrace \in Nat
    BY LycheeAssumption
  <1>2. /\ attempt[q] \in Nat /\ attempt[q] <= Attempts /\ elapsed[q] \in Nat
        /\ worked[q] \in Nat /\ worked[q] <= LockGrace
    BY <1>1 DEF TypeOK
  <1>3. LockTimeout \in Nat /\ Downloads(Attempts) + LockGrace <= LockTimeout
    BY TimeoutCovers
  <1>4. Downloads(Attempts) \in Nat
    BY <1>1, DownloadsGrow
  <1>5. CASE attempt[q] = 0
    <2>1. Used(q) = worked[q]
      BY <1>5 DEF Used
    <2> QED
      BY <1>1, <1>2, <1>3, <1>4, <2>1
  <1>6. CASE attempt[q] # 0
    <2>1. /\ Downloads(attempt[q]) \in Nat
          /\ Downloads(attempt[q]) <= Downloads(Attempts)
      BY <1>1, <1>2, <1>6, DownloadsGrow
    <2>2. DownloadTimeout <= Downloads(attempt[q])
      <3>1. Downloads(1) = DownloadTimeout
        BY <1>1 DEF Downloads
      <3> QED
        BY <1>2, <1>6, <3>1, DownloadsGrow
    <2>3. CASE pc[q] = "backoff"
      <3>1. attempt[q] + 1 <= Attempts /\ elapsed[q] <= Delay(attempt[q])
        BY <1>1, <1>2, <2>3 DEF ClockInv
      <3>2. Downloads(attempt[q] + 1) <= Downloads(Attempts)
        BY <1>1, <1>2, <3>1, DownloadsGrow
      <3>3. Downloads(attempt[q] + 1) = Downloads(attempt[q]) + Delay(attempt[q]) + DownloadTimeout
        BY <1>2, NextAttempt
      <3>4. Delay(attempt[q]) \in Int
        BY <1>1, <1>2 DEF Delay
      <3>5. Used(q) = Downloads(attempt[q]) + elapsed[q] + worked[q]
        BY <1>2, <1>6, <2>1, <2>3 DEF Used
      <3> QED
        BY <1>1, <1>2, <1>3, <1>4, <2>1, <3>1, <3>2, <3>3, <3>4, <3>5
    <2>4. CASE pc[q] # "backoff"
      <3>1. elapsed[q] <= DownloadTimeout
        BY <2>4 DEF ClockInv
      <3>2. Used(q) = Downloads(attempt[q]) + elapsed[q] + worked[q] - DownloadTimeout
        BY <1>6, <2>4 DEF Used
      <3> QED
        BY <1>1, <1>2, <1>3, <1>4, <2>1, <2>2, <3>1, <3>2
    <2> QED
      BY <2>3, <2>4
  <1> QED
    BY <1>5, <1>6

\* What a holder does never takes back time it has used.
HolderAct(p) ==
  \/ Check(p) \/ Fetch(p) \/ FetchFails(p) \/ Retry(p) \/ Accept(p) \/ Remove(p)
  \/ Rename(p) \/ InstallFails(p) \/ Cleanup(p)

LEMMA UsedGrows ==
  ASSUME TypeOK, ClockInv, TypeOK', ClockInv', NEW p \in Process, HolderAct(p)
  PROVE  Used(p)' \in Int /\ Used(p) <= Used(p)'
  <1>1. DownloadTimeout \in Nat /\ HalfDelay \in Nat
    BY LycheeAssumption
  <1>2. /\ attempt[p] \in Nat /\ elapsed[p] \in Nat /\ worked[p] \in Nat
        /\ attempt'[p] \in Nat /\ elapsed'[p] \in Nat /\ worked'[p] = worked[p]
    BY DEF TypeOK, HolderAct, Check, Fetch, FetchFails, Retry, Accept, Remove, Rename,
       InstallFails, Cleanup, clocks
  <1>3. Used(p) \in Nat
    BY UsedBounds
  <1>4. /\ Downloads(1) = DownloadTimeout
        /\ Downloads(attempt[p]) \in Int /\ Downloads(attempt[p] + 1) \in Int
    BY <1>1, <1>2 DEF Downloads
  <1>5. CASE Check(p)
    <2>1. attempt[p] = 0 /\ elapsed[p] = 0
      BY <1>5 DEF Check, ClockInv, TypeOK, Holding, Working
    <2>2. \/ attempt'[p] = attempt[p] /\ elapsed'[p] = elapsed[p]
          \/ attempt'[p] = 1 /\ elapsed'[p] = elapsed[p] /\ pc'[p] = "downloading"
      BY <1>5 DEF Check, clocks, TypeOK, Goto
    <2> QED
      BY <1>1, <1>2, <1>4, <2>1, <2>2 DEF Used
  <1>6. CASE FetchFails(p)
    <2>1. attempt' = attempt /\ pc[p] = "downloading" /\ attempt[p] > 0
      BY <1>6 DEF FetchFails, ClockInv, Replacing, Fetching
    <2>2. elapsed[p] <= DownloadTimeout
      BY <2>1 DEF ClockInv
    <2>3. \/ pc'[p] = "backoff" /\ elapsed'[p] = 0
          \/ pc'[p] = "cleanup" /\ elapsed'[p] = elapsed[p]
      BY <1>6 DEF FetchFails, Goto, Unwind, TypeOK
    <2> QED
      BY <1>1, <1>2, <1>4, <2>1, <2>2, <2>3 DEF Used
  <1>7. CASE Retry(p)
    <2>1. /\ pc[p] = "backoff" /\ elapsed[p] = Delay(attempt[p]) /\ attempt[p] > 0
          /\ attempt'[p] = attempt[p] + 1 /\ elapsed'[p] = 0 /\ pc'[p] = "downloading"
      BY <1>7 DEF Retry, ClockInv, Replacing, Fetching, Goto, TypeOK
    <2>2. Downloads(attempt[p] + 1) = Downloads(attempt[p]) + Delay(attempt[p]) + DownloadTimeout
      BY <1>2, NextAttempt
    <2>3. Used(p) = Downloads(attempt[p]) + elapsed[p] + worked[p]
      BY <1>2, <1>4, <2>1 DEF Used
    <2>4. Used(p)' = Downloads(attempt[p] + 1) + 0 + worked[p] - DownloadTimeout
      BY <1>2, <2>1 DEF Used, Downloads
    <2>5. Delay(attempt[p]) \in Int
      BY <1>1, <1>2 DEF Delay
    <2> QED
      BY <1>1, <1>2, <1>4, <2>1, <2>2, <2>3, <2>4, <2>5
  <1>8. CASE Fetch(p) \/ Accept(p) \/ Remove(p) \/ Rename(p) \/ InstallFails(p) \/ Cleanup(p)
    <2>1. attempt' = attempt /\ elapsed' = elapsed /\ pc[p] # "backoff" /\ pc'[p] # "backoff"
      BY <1>8 DEF Fetch, Accept, Remove, Rename, InstallFails, Cleanup, Goto, Unwind, clocks, TypeOK
    <2> QED
      BY <1>2, <1>3, <2>1 DEF Used, Downloads
  <1> QED
    BY <1>5, <1>6, <1>7, <1>8 DEF HolderAct


\* What a process does without the lock concerns nobody's time but its own.
OutsiderAct(p) ==
  \/ StartFails(p) \/ Start(p) \/ LockFails(p) \/ GiveUp(p) \/ Verify(p) \/ Spawn(p) \/ Exit(p)

\* A wait that began under this owner is no longer than the owner has held the lock.
LEMMA TimeStep ==
  TypeOK /\ OwnerInv /\ ClockInv /\ TimeInv /\ TypeOK' /\ OwnerInv' /\ ClockInv' /\ [Next]_vars
    => TimeInv'
  <1> SUFFICES ASSUME TypeOK, OwnerInv, ClockInv, TimeInv, TypeOK', OwnerInv', ClockInv',
                      [Next]_vars,
                      NEW w \in Process, pc'[w] = "locking", owner' \in Process,
                      w \notin overtaken', pc'[owner'] # "killed"
               PROVE  waited'[w] <= Used(owner)'
    BY DEF TimeInv
  <1>1. ASSUME NEW p \in Process, HolderAct(p) PROVE waited'[w] <= Used(owner)'
    <2>1. pc[p] \in Holding /\ owner' = owner /\ overtaken' = overtaken /\ waited' = waited
      BY <1>1 DEF HolderAct, Check, Fetch, FetchFails, Retry, Accept, Remove, Rename,
         InstallFails, Cleanup, clocks, history, Holding, Working
    <2>2. owner = p
      BY <2>1 DEF OwnerInv
    <2>3. \E l \in Places : pc' = [pc EXCEPT ![p] = l] /\ l # "locking"
      BY <1>1 DEF HolderAct, Check, Fetch, FetchFails, Retry, Accept, Remove, Rename,
         InstallFails, Cleanup, Goto, Unwind, Places, Holding, Working
    <2>4. w # p /\ pc[w] = "locking"
      BY <2>3 DEF TypeOK
    <2>5. waited[w] <= Used(p)
      BY <2>1, <2>2, <2>4 DEF TimeInv, Holding, Working
    <2>6. Used(p) <= Used(p)' /\ Used(p) \in Nat /\ Used(p)' \in Int
      BY <1>1, UsedGrows, UsedBounds
    <2>7. waited[w] \in Int
      BY TimeoutCovers DEF TypeOK
    <2> QED
      BY <2>1, <2>2, <2>5, <2>6, <2>7
  <1>2. ASSUME NEW p \in Process, OutsiderAct(p) PROVE waited'[w] <= Used(owner)'
    <2>1. pc[p] \notin Holding \cup {"killed"} /\ owner' = owner
      BY <1>2 DEF OutsiderAct, StartFails, Start, LockFails, GiveUp, Verify, Spawn, Exit,
         history, Holding, Working
    <2>2. owner # p
      BY <2>1 DEF OwnerInv
    <2>3. \E l \in Places : pc' = [pc EXCEPT ![p] = l]
      BY <1>2 DEF OutsiderAct, StartFails, Start, LockFails, GiveUp, Verify, Spawn, Exit,
         Goto, Places, Over
    <2>4. \A q \in Process \ {p} :
            /\ pc'[q] = pc[q] /\ attempt'[q] = attempt[q] /\ elapsed'[q] = elapsed[q]
            /\ worked'[q] = worked[q] /\ waited'[q] = waited[q]
            /\ q \notin overtaken' => q \notin overtaken
      BY <1>2, <2>3 DEF OutsiderAct, StartFails, Start, LockFails, GiveUp, Verify, Spawn, Exit,
         Forget, clocks, history, TypeOK
    <2>5. Used(owner)' = Used(owner)
      BY <2>1, <2>2, <2>4 DEF Used, Downloads
    <2>6. CASE w # p
      BY <2>1, <2>2, <2>4, <2>5, <2>6 DEF TimeInv
    <2>7. CASE w = p
      <3>1. Start(p) /\ pc[p] = "idle"
        BY <1>2, <2>7 DEF OutsiderAct, StartFails, Start, LockFails, GiveUp, Verify, Spawn, Exit,
           Goto, TypeOK
      <3>2. waited'[w] = 0
        BY <2>7, <3>1 DEF Start, clocks, ClockInv
      <3> QED
        BY <2>1, <2>5, <3>2, UsedBounds
    <2> QED
      BY <2>6, <2>7
  <1>3. ASSUME NEW p \in Process, Lock(p) PROVE FALSE
    BY <1>3 DEF Lock, Goto, TypeOK
  <1>4. ASSUME NEW p \in Process, Release(p) PROVE FALSE
    BY <1>4, LycheeAssumption DEF Release
  <1>5. ASSUME NEW p \in Process, Kill(p) PROVE waited'[w] <= Used(owner)'
    <2>1. owner' = owner /\ p # owner /\ p # w
      BY <1>5 DEF Kill, Goto, TypeOK
    <2>2. \A q \in Process \ {p} :
            /\ pc'[q] = pc[q] /\ attempt'[q] = attempt[q] /\ elapsed'[q] = elapsed[q]
            /\ worked'[q] = worked[q] /\ waited'[q] = waited[q]
            /\ q \notin overtaken' => q \notin overtaken
      BY <1>5 DEF Kill, Goto, Forget, TypeOK
    <2>3. Used(owner)' = Used(owner)
      BY <2>1, <2>2 DEF Used, Downloads
    <2> QED
      BY <2>1, <2>2, <2>3 DEF TimeInv
  <1>6. CASE RemoveStaleLock
    BY <1>6, LycheeAssumption DEF RemoveStaleLock
  <1>7. CASE Tick
    <2>1. pc' = pc /\ attempt' = attempt /\ owner' = owner /\ overtaken' = overtaken
      BY <1>7 DEF Tick, history
    <2>2. pc[owner] \in Holding
      BY <2>1 DEF OwnerInv
    <2>3. waited[w] <= Used(owner) /\ waited[w] \in Int /\ Used(owner) \in Int
      BY <2>1, TimeoutCovers, UsedBounds DEF TimeInv, TypeOK
    <2>4. waited'[w] \in Int /\ waited'[w] <= waited[w] + 1
      BY <1>7, <2>3 DEF Tick
    <2>5. /\ elapsed[owner] \in Int /\ worked[owner] \in Int /\ attempt[owner] \in Nat
          /\ DownloadTimeout \in Int /\ Downloads(attempt[owner]) \in Int
      BY <2>1, LycheeAssumption DEF TypeOK, Downloads
    <2>6. CASE pc[owner] \in Fetching
      <3>1. elapsed'[owner] = elapsed[owner] + 1 /\ worked'[owner] = worked[owner]
        BY <1>7, <2>1, <2>6 DEF Tick, Fetching, Working
      <3>2. attempt[owner] # 0
        BY <2>1, <2>5, <2>6 DEF ClockInv, Replacing
      <3>3. Used(owner)' = Used(owner) + 1
        BY <2>1, <2>5, <3>1, <3>2 DEF Used, Downloads
      <3> QED
        BY <2>3, <2>4, <3>3
    <2>7. CASE pc[owner] \notin Fetching
      <3>1. elapsed'[owner] = elapsed[owner] /\ worked'[owner] = worked[owner] + 1
        BY <1>7, <2>1, <2>2, <2>7 DEF Tick, Fetching, Holding
      <3>2. Used(owner)' = Used(owner) + 1
        BY <2>1, <2>5, <3>1 DEF Used, Downloads
      <3> QED
        BY <2>3, <2>4, <3>2
    <2> QED
      BY <2>6, <2>7
  <1>8. CASE UNCHANGED vars
    BY <1>8 DEF vars, clocks, history, TimeInv, Used, Downloads
  <1> QED
    BY <1>1, <1>2, <1>3, <1>4, <1>5, <1>6, <1>7, <1>8
    DEF Next, Step, Finished, HolderAct, OutsiderAct

LEMMA StepInv == Inv /\ [Next]_vars => Inv'
  <1> SUFFICES ASSUME Inv, [Next]_vars PROVE Inv'
    OBVIOUS
  <1>1. TypeOK' /\ OwnerInv' /\ BinaryInv' /\ RunsPinned' /\ ClockInv'
    BY TypeStep, OwnerStep, BinaryStep, ClockStep DEF Inv
  <1>2. TimeInv'
    BY <1>1, TimeStep DEF Inv
  <1> QED
    BY <1>1, <1>2 DEF Inv

\* The invariant holds in every reachable state.
THEOREM Invariant == Spec => []Inv
  <1> QED
    BY InitInv, StepInv, PTL DEF Spec

\* The variables keep to their types.
THEOREM TypeCorrect == Spec => []TypeOK
  <1>1. Inv => TypeOK
    BY DEF Inv
  <1> QED
    BY <1>1, Invariant, PTL

\* A process runs the pinned binary and nothing else, for any number of processes, kills and
\* downloads.
THEOREM Pinned == Spec => []RunsPinned
  <1>1. Inv => RunsPinned
    BY DEF Inv
  <1> QED
    BY <1>1, Invariant, PTL

\* A waiter gives up on a living holder only when the lock changed hands, whatever the number
\* of attempts, the timeouts and the delays.
THEOREM Patience == Spec => GivesUpForCause
  <1>1. Inv /\ [Next]_vars =>
          [\A p \in Process : pc[p] = "locking" /\ pc'[p] = "gaveUp" =>
             p \in overtaken \/ pc[owner] = "killed"]_vars
    <2> SUFFICES ASSUME Inv, [Next]_vars, NEW p \in Process,
                        pc[p] = "locking", pc'[p] = "gaveUp", p \notin overtaken
                 PROVE  pc[owner] = "killed"
      OBVIOUS
    <2>1. GiveUp(p)
      <3>1. ASSUME NEW q \in Process, Step(q) \/ Kill(q) PROVE GiveUp(p)
        BY <3>1 DEF Step, Kill, StartFails, Start, Lock, LockFails, GiveUp, Check, Release, Verify,
           Spawn, Exit, Fetch, FetchFails, Retry, Accept, Remove, Rename, InstallFails, Cleanup,
           Goto, Unwind, Inv, TypeOK
      <3> QED
        BY <3>1 DEF Next, RemoveStaleLock, Tick, Finished, vars
    <2>2. owner \in Process
      BY <2>1 DEF GiveUp, Inv, TypeOK, OwnerInv
    <2>3. waited[p] > LockTimeout /\ waited[p] \in Int /\ LockTimeout \in Int
      BY <2>1, TimeoutCovers DEF GiveUp, Inv, TypeOK
    <2>4. SUFFICES ASSUME pc[owner] # "killed" PROVE FALSE
      OBVIOUS
    <2>5. pc[owner] \in Holding
      BY <2>2, <2>4 DEF Inv, OwnerInv
    <2>6. waited[p] <= Used(owner)
      BY <2>2, <2>4 DEF Inv, TimeInv
    <2>7. Used(owner) \in Int /\ Used(owner) <= LockTimeout
      BY <2>2, <2>5, UsedBounds DEF Inv
    <2> QED
      BY <2>3, <2>6, <2>7
  <1> QED
    BY <1>1, Invariant, PTL DEF Spec, GivesUpForCause


---------------------------------------------------------------------------
(* The work ahead of a process. *)

\* Stations on the way, and two more for each attempt that is still to come.
Station == [done |-> 0, failed |-> 0, gaveUp |-> 0, killed |-> 0, running |-> 1, ready |-> 2,
            verifying |-> 3, releasing |-> 4, cleanup |-> 5, renaming |-> 6, removing |-> 7,
            installing |-> 8, backoff |-> 9, downloading |-> 10, checking |-> 10,
            locking |-> 11, idle |-> 12]
AttemptsLeft(p) ==
  IF pc[p] \in {"idle", "locking", "checking"} THEN Attempts
  ELSE IF pc[p] \in Fetching THEN Attempts - attempt[p] ELSE 0
Ahead(p) == Station[pc[p]] + 2 * AttemptsLeft(p)

WorkBounded  == \A p \in Process : Ahead(p) \in 0 .. 2 * Attempts + 12
WorkConsumed ==
  [][\A p \in Process :
       Ahead(p)' <= Ahead(p) /\ (Step(p) \/ Kill(p) => Ahead(p)' < Ahead(p))]_vars

\* What is ahead of a process is a number, at most that of one that begins.
LEMMA AheadIsNumber ==
  ASSUME TypeOK, NEW p \in Process
  PROVE  /\ Ahead(p) \in 0 .. 2 * Attempts + 12
         /\ Station[pc[p]] \in 0 .. 12 /\ AttemptsLeft(p) \in 0 .. Attempts
  <1>1. Attempts \in Nat
    BY LycheeAssumption
  <1>2. pc[p] \in Places /\ attempt[p] \in 0 .. Attempts
    BY DEF TypeOK
  <1>3. Station[pc[p]] \in 0 .. 12
    BY <1>2 DEF Station, Places, Holding, Working, Over
  <1>4. AttemptsLeft(p) \in 0 .. Attempts
    BY <1>1, <1>2 DEF AttemptsLeft
  <1> QED
    BY <1>1, <1>3, <1>4 DEF Ahead

\* A step of a process, its end by a kill included, takes it nearer to its end.
LEMMA OwnStep ==
  ASSUME Inv, NEW p \in Process, Step(p) \/ Kill(p)
  PROVE  Ahead(p)' \in Int /\ Ahead(p)' < Ahead(p)
  <1> DEFINE Left(l, a) == IF l \in {"idle", "locking", "checking"} THEN Attempts
                           ELSE IF l \in Fetching THEN Attempts - a ELSE 0
             Nearer(l) == Station[l] < Station[pc[p]] /\ l \notin Fetching \cup {"checking", "locking"}
  <1>1. /\ pc \in [Process -> Places] /\ attempt \in [Process -> 0 .. Attempts]
        /\ pc[p] \in Places /\ attempt[p] \in 0 .. Attempts
    BY DEF Inv, TypeOK
  <1>2. Attempts \in Nat \ {0}
    BY LycheeAssumption
  <1>3. Station[pc[p]] \in 0 .. 12 /\ AttemptsLeft(p) \in 0 .. Attempts
    BY AheadIsNumber DEF Inv
  <1>4. Ahead(p)' = Station[pc'[p]] + 2 * Left(pc'[p], attempt'[p])
    BY DEF Ahead, AttemptsLeft, Station, Fetching
  <1>5. ASSUME NEW l \in Places, Goto(p, l), Nearer(l), l # "idle"
        PROVE  Ahead(p)' \in Int /\ Ahead(p)' < Ahead(p)
    <2>1. pc'[p] = l
      BY <1>1, <1>5 DEF Goto
    <2>2. Station[l] \in 0 .. 12
      BY DEF Station, Places, Holding, Working, Over
    <2>3. Ahead(p)' = Station[l]
      BY <1>4, <1>5, <2>1, <2>2
    <2> QED
      BY <1>2, <1>3, <1>5, <2>2, <2>3 DEF Ahead
  <1> USE DEF Places, Holding, Working, Over, Fetching, Station
  <1>6. CASE \/ StartFails(p) \/ LockFails(p) \/ GiveUp(p) \/ Release(p) \/ Verify(p) \/ Spawn(p)
             \/ Exit(p) \/ Fetch(p) \/ Accept(p) \/ Remove(p) \/ Rename(p) \/ InstallFails(p)
             \/ Cleanup(p) \/ Kill(p)
    <2>1. PICK l \in Places : Goto(p, l) /\ Nearer(l) /\ l # "idle"
      BY <1>1, <1>6 DEF StartFails, LockFails, GiveUp, Release, Verify, Spawn, Exit, Fetch, Accept,
                        Remove, Rename, InstallFails, Unwind, Cleanup, Kill
    <2> QED
      BY <1>5, <2>1
  <1>7. CASE Start(p)
    <2>1. pc[p] = "idle" /\ pc'[p] \in {"ready", "locking"}
      BY <1>1, <1>7 DEF Start, Goto
    <2> QED
      BY <1>2, <1>4, <2>1 DEF Ahead, AttemptsLeft
  <1>8. CASE Lock(p)
    <2>1. pc[p] = "locking" /\ pc'[p] = "checking"
      BY <1>1, <1>8 DEF Lock, Goto
    <2> QED
      BY <1>2, <1>4, <2>1 DEF Ahead, AttemptsLeft
  <1>9. CASE Check(p)
    <2>1. /\ pc[p] = "checking"
          /\ pc'[p] = "releasing" \/ (pc'[p] = "downloading" /\ attempt'[p] = 1)
      BY <1>1, <1>9 DEF Check, Goto
    <2> QED
      BY <1>2, <1>4, <2>1 DEF Ahead, AttemptsLeft
  <1>10. CASE FetchFails(p)
    <2>1. /\ pc[p] = "downloading" /\ attempt'[p] = attempt[p]
          /\ pc'[p] \in {"backoff", "cleanup"}
      BY <1>1, <1>10 DEF FetchFails, Goto, Unwind
    <2> QED
      BY <1>1, <1>2, <1>4, <2>1 DEF Ahead, AttemptsLeft
  <1>11. CASE Retry(p)
    <2>1. pc[p] = "backoff" /\ attempt'[p] = attempt[p] + 1 /\ pc'[p] = "downloading"
      BY <1>1, <1>11 DEF Retry, Goto
    <2> QED
      BY <1>1, <1>2, <1>4, <2>1 DEF Ahead, AttemptsLeft
  <1> QED
    BY <1>6, <1>7, <1>8, <1>9, <1>10, <1>11 DEF Step

\* What the others do, the user and the clock among them, leaves a process where it is.
LEMMA OtherStep ==
  ASSUME Inv, NEW p \in Process, [Next]_vars, ~(Step(p) \/ Kill(p))
  PROVE  Ahead(p)' = Ahead(p)
  <1>1. pc \in [Process -> Places] /\ attempt \in [Process -> 0 .. Attempts]
    BY DEF Inv, TypeOK
  <1>2. pc'[p] = pc[p] /\ attempt'[p] = attempt[p]
    <2>1. ASSUME NEW q \in Process, q # p, Step(q) \/ Kill(q)
          PROVE  pc'[p] = pc[p] /\ attempt'[p] = attempt[p]
      BY <1>1, <2>1
      DEF Step, StartFails, Start, Lock, LockFails, GiveUp, Check, Release, Verify, Spawn, Exit,
          Fetch, FetchFails, Retry, Accept, Remove, Rename, InstallFails, Cleanup, Kill, Goto,
          Forget, Unwind
    <2>2. CASE RemoveStaleLock \/ Tick \/ UNCHANGED vars
      BY <2>2 DEF RemoveStaleLock, Tick, vars
    <2> QED
      BY <2>1, <2>2 DEF Next, Finished
  <1> QED
    BY <1>2 DEF Ahead, AttemptsLeft, Station, Fetching

\* No process takes more than 2 * Attempts + 12 steps, however the lock is held, stale or
\* fought for: each takes it nearer to its end, and nobody else takes it back.
THEOREM FiniteWork == Spec => []WorkBounded /\ WorkConsumed
  <1> DEFINE Consumed == \A p \in Process :
                           Ahead(p)' <= Ahead(p) /\ (Step(p) \/ Kill(p) => Ahead(p)' < Ahead(p))
  <1>1. Inv => WorkBounded
    BY AheadIsNumber DEF Inv, WorkBounded
  <1>2. ASSUME Inv, Inv', [Next]_vars PROVE Consumed
    <2> SUFFICES ASSUME NEW p \in Process
                 PROVE  Ahead(p)' <= Ahead(p) /\ (Step(p) \/ Kill(p) => Ahead(p)' < Ahead(p))
      OBVIOUS
    <2>1. Ahead(p) \in Int
      BY <1>1, <1>2, LycheeAssumption DEF WorkBounded
    <2>2. CASE Step(p) \/ Kill(p)
      BY <1>2, <2>1, <2>2, OwnStep
    <2>3. CASE ~(Step(p) \/ Kill(p))
      BY <1>2, <2>1, <2>3, OtherStep
    <2> QED
      BY <2>2, <2>3
  <1> HIDE DEF Consumed
  <1>3. Spec => []WorkBounded
    BY <1>1, Invariant, PTL
  <1>4. Spec => [][Consumed]_vars
    BY <1>2, Invariant, PTL DEF Spec
  <1> QED
    BY <1>3, <1>4 DEF Consumed, WorkConsumed
=============================================================================
