------------------------------- MODULE RWMutex -------------------------------
(* include/common/rwmutex.h, the latch of every page: a reader-writer lock    *)
(* from one mutex and two condition variables.  What a thread does between    *)
(* taking mutex_ and releasing it, by returning or by waiting, is one action; *)
(* a thread that is woken takes mutex_ again and tests its condition again.   *)
EXTENDS Integers, FiniteSets

CONSTANTS
  Thread,
  MaxReaders          \* max_readers_

ASSUME ReadersAssumption == IsFiniteSet(Thread) /\ MaxReaders \in Nat

VARIABLES
  reader_count_, writer_entered_,
  at                  \* where each thread is; see Place

latchVars == <<reader_count_, writer_entered_, at>>

Place == {"out",
          "wlock", "wlock_wait",     \* WLock, first loop: ready, waiting on reader_
          "drain", "drain_wait",     \* WLock, second loop: ready, waiting on writer_
          "writing",
          "rlock", "rlock_wait",     \* RLock: ready, waiting on reader_
          "reading"}

LatchInit ==
  /\ reader_count_ = 0
  /\ writer_entered_ = FALSE
  /\ at = [t \in Thread |-> "out"]

\* What a thread that waits does once it is woken.
Woken(place) ==
  CASE place = "wlock_wait" -> "wlock"
    [] place = "rlock_wait" -> "rlock"
    [] place = "drain_wait" -> "drain"
    [] OTHER -> place

OnReader == {t \in Thread : at[t] \in {"wlock_wait", "rlock_wait"}}
OnWriter == {t \in Thread : at[t] = "drain_wait"}

\* The threads of S are woken, and t goes to place p.
WakeAndGo(S, t, p) ==
  at' = [u \in Thread |-> IF u = t THEN p ELSE IF u \in S THEN Woken(at[u]) ELSE at[u]]

\* notify_one() on a condition variable with these waiters.
NotifyOne(waiters, t, p) ==
  \/ waiters = {} /\ WakeAndGo({}, t, p)
  \/ \E u \in waiters : WakeAndGo({u}, t, p)

\* A call starts; its first step is to take mutex_.
Call(t) ==
  /\ at[t] = "out"
  /\ \E p \in {"wlock", "rlock"} : WakeAndGo({}, t, p)
  /\ UNCHANGED <<reader_count_, writer_entered_>>

\* Mutant: the writer does not wait for the readers that are there.
WLockNoDrain(t) ==
  /\ at[t] = "wlock"
  /\ IF writer_entered_
     THEN WakeAndGo({}, t, "wlock_wait") /\ UNCHANGED writer_entered_
     ELSE writer_entered_' = TRUE /\ WakeAndGo({}, t, "writing")
  /\ UNCHANGED reader_count_

\* The first loop of WLock, and the first test of the second.
WLock(t) ==
  /\ at[t] = "wlock"
  /\ IF writer_entered_
     THEN WakeAndGo({}, t, "wlock_wait") /\ UNCHANGED writer_entered_
     ELSE /\ writer_entered_' = TRUE
          /\ WakeAndGo({}, t, IF reader_count_ > 0 THEN "drain_wait" ELSE "writing")
  /\ UNCHANGED reader_count_

\* The second loop of WLock, after a wait.
Drain(t) ==
  /\ at[t] = "drain"
  /\ WakeAndGo({}, t, IF reader_count_ > 0 THEN "drain_wait" ELSE "writing")
  /\ UNCHANGED <<reader_count_, writer_entered_>>

\* Mutant: notify_one instead of notify_all.
WUnlockNotifiesOne(t) ==
  /\ at[t] = "writing"
  /\ writer_entered_' = FALSE
  /\ NotifyOne(OnReader, t, "out")
  /\ UNCHANGED reader_count_

WUnlock(t) ==
  /\ at[t] = "writing"
  /\ writer_entered_' = FALSE
  /\ WakeAndGo(OnReader, t, "out")
  /\ UNCHANGED reader_count_

\* Mutant: a reader passes a writer that has entered and still waits.
RLockBarges(t) ==
  /\ at[t] = "rlock"
  /\ IF (\E u \in Thread : at[u] = "writing") \/ reader_count_ = MaxReaders
     THEN WakeAndGo({}, t, "rlock_wait") /\ UNCHANGED reader_count_
     ELSE WakeAndGo({}, t, "reading") /\ reader_count_' = reader_count_ + 1
  /\ UNCHANGED writer_entered_

RLock(t) ==
  /\ at[t] = "rlock"
  /\ IF writer_entered_ \/ reader_count_ = MaxReaders
     THEN WakeAndGo({}, t, "rlock_wait") /\ UNCHANGED reader_count_
     ELSE WakeAndGo({}, t, "reading") /\ reader_count_' = reader_count_ + 1
  /\ UNCHANGED writer_entered_

RUnlock(t) ==
  /\ at[t] = "reading"
  /\ reader_count_' = reader_count_ - 1
  /\ IF writer_entered_
     THEN IF reader_count_' = 0 THEN NotifyOne(OnWriter, t, "out")
                                ELSE WakeAndGo({}, t, "out")
     ELSE IF reader_count_' = MaxReaders - 1 THEN NotifyOne(OnReader, t, "out")
                                             ELSE WakeAndGo({}, t, "out")
  /\ UNCHANGED writer_entered_

\* wait() may return without a notification.
SpuriousWakeup(t) ==
  /\ t \in OnReader \cup OnWriter
  /\ WakeAndGo({}, t, Woken(at[t]))
  /\ UNCHANGED <<reader_count_, writer_entered_>>

\* What a thread does by itself once it has called.
Step(t) == WLock(t) \/ Drain(t) \/ WUnlock(t) \/ RLock(t) \/ RUnlock(t)

LatchNext == \E t \in Thread : Call(t) \/ Step(t) \/ SpuriousWakeup(t)

LatchSpec == LatchInit /\ [][LatchNext]_latchVars

\* A thread that can run runs, and a holder releases: the code that uses the
\* latch never keeps it forever.
FairLatchSpec == LatchSpec /\ \A t \in Thread : WF_latchVars(Step(t))
------------------------------------------------------------------------------
LatchTypeOK ==
  /\ reader_count_ \in Nat
  /\ writer_entered_ \in BOOLEAN
  /\ at \in [Thread -> Place]

Readers == {t \in Thread : at[t] = "reading"}

\* A writer is alone, whatever wake-ups come when: nobody reads or writes while
\* a thread is between its WLock and its WUnlock.
Exclusion ==
  \A t, u \in Thread :
    at[t] = "writing" /\ t # u => at[u] \notin {"reading", "writing"}

\* reader_count_ is the number of readers, so it never wraps below zero and the
\* writer's second loop ends exactly when the last reader is gone.
CountIsExact == reader_count_ = Cardinality(Readers)

\* Nobody sleeps through what it waits for: a thread waits on reader_ only while
\* some writer holds writer_entered_ and will notify, and on writer_ only while
\* some reader is there to notify.  This needs no more threads than max_readers_
\* (4294967295 in the code): beyond, RUnlock wakes one waiter for the first place
\* that gets free and none for the next.
NoLostWakeup ==
  Cardinality(Thread) <= MaxReaders =>
  /\ OnReader # {} => \E t \in Thread : at[t] \in {"drain", "drain_wait", "writing"}
  /\ OnWriter # {} => Readers # {}

\* A writer that has entered gets the lock: readers that come later wait.
EnteredWriterWrites ==
  \A t \in Thread : at[t] \in {"drain", "drain_wait"} ~> at[t] = "writing"

==============================================================================
