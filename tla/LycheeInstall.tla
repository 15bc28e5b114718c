--------------------------- MODULE LycheeInstall ---------------------------
(***************************************************************************)
(* The link checker's launcher (scripts/run-lychee-lib.mjs): several       *)
(* docs:links processes share one cache directory, and whichever gets the  *)
(* lock directory first downloads, verifies and installs the pinned binary *)
(* while the others wait for it.                                           *)
(*                                                                         *)
(* A process may be killed at any point.  The lock is a bare directory: it *)
(* does not say who made it, and a killed process leaves it behind, until  *)
(* somebody removes it by hand while no docs:links process runs.           *)
(*                                                                         *)
(* Time is counted in ticks.  A download is cut off at its timeout, a      *)
(* retry comes when its delay has passed, and everything else a process    *)
(* does while it holds the lock takes at most LockGrace together; a waiter *)
(* is never in a hurry.  The temporary directory of an install has a name  *)
(* of its own that nobody else reads, and is left out.                     *)
(***************************************************************************)
EXTENDS Integers, FiniteSets

CONSTANTS
  Process,          \* bound: docs:links processes
  Nobody,           \* not a process
  MaxKills,         \* bound: processes killed
  Attempts,         \* DOWNLOAD_ATTEMPTS
  DownloadTimeout,  \* DOWNLOAD_TIMEOUT_MS, in ticks
  HalfDelay,        \* half of the 500 ms a retry waits per attempt made, in ticks
  LockGrace,        \* INSTALL_LOCK_GRACE_MS, in ticks
  LockOption        \* LYCHEE_INSTALL_LOCK_TIMEOUT_MS, in ticks; 0 when it is not set

ASSUME LycheeAssumption ==
  /\ Nobody \notin Process
  /\ MaxKills \in Nat /\ Attempts \in Nat \ {0} /\ DownloadTimeout \in Nat \ {0}
  /\ HalfDelay \in Nat /\ LockGrace \in Nat /\ LockOption \in Nat

VARIABLES
  \* The cache directory.
  binary,     \* the cached binary: "missing", "bad" (of another hash) or "good"
  lock,       \* the lock directory exists
  \* Each process.
  pc,
  attempt,    \* the download attempt under way, from 1; 0 before the first
  fetched,    \* what was downloaded: "nothing", "bad" or "good"
  failing,    \* processes that are unwinding an error
  \* Time.
  elapsed,    \* ticks since the attempt or the delay began
  worked,     \* ticks spent on other work under the lock
  waited,     \* ticks since the process first asked for the lock
  \* History, unknown to the code.
  owner,      \* who made the lock directory, or Nobody
  overtaken,  \* waiting processes that saw another one take the lock
  kills

cache   == <<binary, lock>>
clocks  == <<elapsed, worked, waited>>
history == <<owner, overtaken>>
vars == <<cache, pc, attempt, fetched, failing, clocks, history, kills>>

Delay(n) == 2 * HalfDelay * n

\* BUG: the delays between the attempts are left out.
InstallTimeNoDelay(attempts, timeout) == attempts * timeout + LockGrace

\* installLockTimeoutMs.
InstallTime(attempts, timeout) ==
  attempts * timeout + attempts * (attempts - 1) * HalfDelay + LockGrace

MinLockTimeout == InstallTime(Attempts, DownloadTimeout)
LockTimeout    == IF LockOption > MinLockTimeout THEN LockOption ELSE MinLockTimeout

Working == {"checking", "installing", "removing", "renaming", "cleanup", "releasing"}
Holding == Working \cup {"downloading", "backoff"}
Over    == {"done", "failed", "gaveUp", "killed"}
Places  == {"idle", "locking", "verifying", "ready", "running"} \cup Holding \cup Over

Init ==
  /\ binary \in {"missing", "bad", "good"} /\ lock = FALSE
  /\ pc = [p \in Process |-> "idle"]
  /\ attempt = [p \in Process |-> 0]
  /\ fetched = [p \in Process |-> "nothing"]
  /\ failing = {}
  /\ elapsed = [p \in Process |-> 0]
  /\ worked = [p \in Process |-> 0]
  /\ waited = [p \in Process |-> 0]
  /\ owner = Nobody /\ overtaken = {} /\ kills = 0

Goto(p, l) == pc' = [pc EXCEPT ![p] = l]

\* The local variables of p's install go out of scope.
Forget(p) ==
  /\ attempt' = [attempt EXCEPT ![p] = 0]
  /\ fetched' = [fetched EXCEPT ![p] = "nothing"]
  /\ failing' = failing \ {p}
  /\ elapsed' = [elapsed EXCEPT ![p] = 0]
  /\ worked' = [worked EXCEPT ![p] = 0]
  /\ waited' = [waited EXCEPT ![p] = 0]
  /\ overtaken' = overtaken \ {p}

\* An error thrown under the lock: both `finally` blocks are still to run.
Unwind(p, l) == Goto(p, l) /\ failing' = failing \cup {p}

---------------------------------------------------------------------------
(* ensureLychee and withInstallLock. *)

\* No binary is pinned for the platform, or the cache directory cannot be made.
StartFails(p) ==
  /\ pc[p] = "idle"
  /\ Goto(p, "failed")
  /\ UNCHANGED <<cache, attempt, fetched, failing, clocks, history, kills>>

\* A cached binary of the right hash is used without asking for the lock.
Start(p) ==
  /\ pc[p] = "idle"
  /\ Goto(p, IF binary = "good" THEN "ready" ELSE "locking")
  /\ UNCHANGED <<cache, attempt, fetched, failing, clocks, history, kills>>

\* mkdir succeeds.
Lock(p) ==
  /\ pc[p] = "locking" /\ ~lock
  /\ lock' = TRUE /\ owner' = p
  /\ overtaken' = {q \in Process \ {p} : pc[q] = "locking"}
  /\ waited' = [waited EXCEPT ![p] = 0]
  /\ Goto(p, "checking")
  /\ UNCHANGED <<binary, attempt, fetched, failing, elapsed, worked, kills>>

\* mkdir fails for another reason than EEXIST.
LockFails(p) ==
  /\ pc[p] = "locking" /\ ~lock
  /\ Goto(p, "failed") /\ Forget(p)
  /\ UNCHANGED <<cache, owner, kills>>

\* BUG: a waiter never gives up.
GiveUpNever(p) == FALSE /\ UNCHANGED vars

\* The directory exists, and has for longer than any install can take; before that the
\* waiter sleeps and tries again.
GiveUp(p) ==
  /\ pc[p] = "locking" /\ lock /\ waited[p] > LockTimeout
  /\ Goto(p, "gaveUp") /\ Forget(p)
  /\ UNCHANGED <<cache, owner, kills>>

\* BUG: the hash is not looked at again once the lock is held.
CheckNothing(p) ==
  /\ pc[p] = "checking"
  /\ Goto(p, "downloading")
  /\ attempt' = [attempt EXCEPT ![p] = 1]
  /\ UNCHANGED <<cache, fetched, failing, clocks, history, kills>>

\* Another process may have installed the binary while this one waited.  If not, the first
\* download begins.
Check(p) ==
  /\ pc[p] = "checking"
  /\ IF binary = "good"
     THEN Goto(p, "releasing") /\ UNCHANGED attempt
     ELSE /\ Goto(p, "downloading")
          /\ attempt' = [attempt EXCEPT ![p] = 1]
  /\ UNCHANGED <<cache, fetched, failing, clocks, history, kills>>

\* The `finally` of withInstallLock.
Release(p) ==
  /\ pc[p] = "releasing"
  /\ lock' = FALSE /\ owner' = Nobody
  /\ Goto(p, IF p \in failing THEN "failed" ELSE "verifying")
  /\ Forget(p)
  /\ UNCHANGED <<binary, kills>>

\* The hash is checked a last time, without the lock.
Verify(p) ==
  /\ pc[p] = "verifying"
  /\ Goto(p, IF binary = "good" THEN "ready" ELSE "failed")
  /\ UNCHANGED <<cache, attempt, fetched, failing, clocks, history, kills>>

\* main: the binary is spawned, and its status becomes the process's own.
Spawn(p) ==
  /\ pc[p] = "ready"
  /\ Goto(p, "running")
  /\ UNCHANGED <<cache, attempt, fetched, failing, clocks, history, kills>>

Exit(p) ==
  /\ pc[p] = "running"
  /\ \E end \in {"done", "failed"} : Goto(p, end)
  /\ UNCHANGED <<cache, attempt, fetched, failing, clocks, history, kills>>

---------------------------------------------------------------------------
(* installLychee and downloadWithRetries. *)

\* downloadOnce ends with a whole file; nothing vouches for its bytes yet.
Fetch(p) ==
  /\ pc[p] = "downloading"
  /\ \E content \in {"bad", "good"} : fetched' = [fetched EXCEPT ![p] = content]
  /\ Goto(p, "installing")
  /\ UNCHANGED <<cache, attempt, failing, clocks, history, kills>>

\* BUG: the last attempt is followed by another.
FetchFailsForever(p) ==
  /\ pc[p] = "downloading"
  /\ \/ /\ Goto(p, "backoff")
        /\ elapsed' = [elapsed EXCEPT ![p] = 0]
        /\ UNCHANGED failing
     \/ Unwind(p, "cleanup") /\ UNCHANGED elapsed
  /\ UNCHANGED <<cache, attempt, fetched, worked, waited, history, kills>>

\* It fails: the connection, the server's status, the size limit or the timeout.  A
\* retryable failure waits for the next attempt unless this was the last.
FetchFails(p) ==
  /\ pc[p] = "downloading"
  /\ \/ /\ attempt[p] < Attempts
        /\ Goto(p, "backoff")
        /\ elapsed' = [elapsed EXCEPT ![p] = 0]
        /\ UNCHANGED failing
     \/ Unwind(p, "cleanup") /\ UNCHANGED elapsed
  /\ UNCHANGED <<cache, attempt, fetched, worked, waited, history, kills>>

Retry(p) ==
  /\ pc[p] = "backoff" /\ elapsed[p] = Delay(attempt[p])
  /\ Goto(p, "downloading")
  /\ attempt' = [attempt EXCEPT ![p] = @ + 1]
  /\ elapsed' = [elapsed EXCEPT ![p] = 0]
  /\ UNCHANGED <<cache, fetched, failing, worked, waited, history, kills>>

\* installDownloadedAsset: the hashes of the asset and of the binary in it are the pinned ones.
Accept(p) ==
  /\ pc[p] = "installing" /\ fetched[p] = "good"
  /\ Goto(p, "removing")
  /\ UNCHANGED <<cache, attempt, fetched, failing, clocks, history, kills>>

\* The binary in the cache is removed, then the new one renamed into its place.
Remove(p) ==
  /\ pc[p] = "removing"
  /\ binary' = "missing"
  /\ Goto(p, "renaming")
  /\ UNCHANGED <<lock, attempt, fetched, failing, clocks, history, kills>>

Rename(p) ==
  /\ pc[p] = "renaming"
  /\ binary' = fetched[p]
  /\ Goto(p, "cleanup")
  /\ UNCHANGED <<lock, attempt, fetched, failing, clocks, history, kills>>

\* A wrong hash, an archive that cannot be read, or a file system call that fails.  Without
\* its temporary directory the install has nothing to clean up.
InstallFails(p) ==
  /\ \/ pc[p] = "checking" /\ binary # "good" /\ Unwind(p, "releasing")
     \/ pc[p] \in {"installing", "removing", "renaming"} /\ Unwind(p, "cleanup")
  /\ UNCHANGED <<cache, attempt, fetched, clocks, history, kills>>

\* The `finally` of installLychee.
Cleanup(p) ==
  /\ pc[p] = "cleanup"
  /\ Goto(p, "releasing")
  /\ UNCHANGED <<cache, attempt, fetched, failing, clocks, history, kills>>

---------------------------------------------------------------------------
(* The environment. *)

\* The process is killed, by a user, a runner or a full machine: no `finally` runs.
Kill(p) ==
  /\ pc[p] \notin {"idle"} \cup Over /\ kills < MaxKills
  /\ Goto(p, "killed") /\ Forget(p)
  /\ kills' = kills + 1
  /\ UNCHANGED <<cache, owner>>

\* A user follows the message of a waiter that gave up: the lock directory is removed, but
\* only while no docs:links process runs.
RemoveStaleLock ==
  /\ lock /\ \A p \in Process : pc[p] \in {"idle"} \cup Over
  /\ lock' = FALSE /\ owner' = Nobody
  /\ UNCHANGED <<binary, pc, attempt, fetched, failing, clocks, overtaken, kills>>

\* How long process p can let time pass before it has to do something.
MayWait(p) ==
  /\ pc[p] = "downloading" => elapsed[p] < DownloadTimeout
  /\ pc[p] = "backoff" => elapsed[p] < Delay(attempt[p])
  /\ pc[p] \in Working => worked[p] < LockGrace

\* A waiter counts no further than to the tick that makes it give up.
Tick ==
  /\ \E p \in Process : pc[p] \in {"locking"} \cup Holding
  /\ \A p \in Process : MayWait(p)
  /\ elapsed' = [p \in Process |->
       IF pc[p] \in {"downloading", "backoff"} THEN elapsed[p] + 1 ELSE elapsed[p]]
  /\ worked' = [p \in Process |-> IF pc[p] \in Working THEN worked[p] + 1 ELSE worked[p]]
  /\ waited' = [p \in Process |->
       IF pc[p] = "locking" /\ waited[p] <= LockTimeout THEN waited[p] + 1 ELSE waited[p]]
  /\ UNCHANGED <<cache, pc, attempt, fetched, failing, history, kills>>

Finished == (\A p \in Process : pc[p] \in Over) /\ UNCHANGED vars

\* What process p does by itself.
Step(p) ==
  \/ StartFails(p) \/ Start(p) \/ Lock(p) \/ LockFails(p) \/ GiveUp(p) \/ Check(p) \/ Release(p)
  \/ Verify(p) \/ Spawn(p) \/ Exit(p)
  \/ Fetch(p) \/ FetchFails(p) \/ Retry(p)
  \/ Accept(p) \/ Remove(p) \/ Rename(p) \/ InstallFails(p) \/ Cleanup(p)

Next ==
  \/ \E p \in Process : Step(p) \/ Kill(p)
  \/ RemoveStaleLock \/ Tick \/ Finished

\* A process is scheduled, and time passes.  Neither a kill nor a removal by hand has to come.
Spec ==
  /\ Init /\ [][Next]_vars
  /\ \A p \in Process : WF_vars(Step(p))
  /\ WF_vars(Tick)

---------------------------------------------------------------------------
(* Properties. *)

\* All variables keep to their types and bounds.
TypeOK ==
  /\ binary \in {"missing", "bad", "good"} /\ lock \in BOOLEAN
  /\ pc \in [Process -> Places]
  /\ attempt \in [Process -> 0 .. Attempts]
  /\ fetched \in [Process -> {"nothing", "bad", "good"}]
  /\ failing \subseteq Process
  /\ elapsed \in [Process -> Nat] /\ worked \in [Process -> 0 .. LockGrace]
  /\ waited \in [Process -> 0 .. LockTimeout + 1]
  /\ owner \in Process \cup {Nobody} /\ overtaken \subseteq Process /\ kills \in 0 .. MaxKills

\* A binary that was found good stays in place and stays the pinned one until the process
\* that found it so has run it, whatever the others do to the cache meanwhile: no installer
\* removes or replaces it, and no download of another hash gets there.
RunsPinned == \A p \in Process : pc[p] \in {"ready", "running"} => binary = "good"

\* A waiter that gives up is right about the lock, unless it lost a race: a single living
\* holder is always waited for, all its attempts and delays included.  Either the holder
\* was killed and the lock is stale, or the lock changed hands while the process waited.
GivesUpForCause ==
  [][\A p \in Process : pc[p] = "locking" /\ pc'[p] = "gaveUp" =>
       p \in overtaken \/ pc[owner] = "killed"]_vars

\* Every process ends: it runs the link checker, fails, gives up or is killed, even when the
\* lock is stale, every download fails, or others keep taking the lock.
Terminates == \A p \in Process : <>(pc[p] \in Over)
=============================================================================
