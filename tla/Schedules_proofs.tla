-------------------------- MODULE Schedules_proofs --------------------------
(* Theorems about Schedules, for any schedules, conversations and faults.  *)
EXTENDS Schedules, FiniteSetTheorems, TLAPS

(* The parts of TypeOK: what is not a number, and what is.                 *)
Sorts ==
  /\ status \in [Conversations -> Statuses]
  /\ active \subseteq Conversations /\ stop \subseteq active
  /\ state \in [Jobs -> {"absent", "Waiting", "Dispatching", "Running", "Needs attention"}]
  /\ enabled \subseteq Jobs /\ due \subseteq Jobs
  /\ last \in [Jobs -> Pool \cup {None}]
  /\ \A s \in Jobs : /\ state[s] = "Running" => last[s] # None
                     /\ last[s] # None => madeFor[last[s]] = s
  /\ holder \in Jobs \cup {None} /\ admitted \in Pool \cup {None}
  /\ seen \in Statuses \cup {None} /\ ticking \in BOOLEAN
  /\ madeFor \in [Pool -> Jobs \cup {None}]
  /\ succeeded \subseteq Pool /\ revived \subseteq Pool /\ cleared \subseteq Pool
Numbers ==
  /\ faults \in Nat /\ faults <= MaxFaults
  /\ elapsed \in [Jobs -> Nat] /\ \A s \in Jobs : elapsed[s] <= MaxOccurrences

(* What is on disk and in memory of each conversation of a schedule.       *)
Known ==
  /\ \A c \in active : status[c] = "working"
  /\ \A c \in Pool : /\ status[c] = "absent" => madeFor[c] = None
                     /\ status[c] = "completed" => c \in succeeded

(* What a tick that holds the lock goes by.                                *)
Held ==
  /\ holder = None => seen = None /\ admitted = None
  /\ seen # None =>
       /\ state[holder] = "Running"
       /\ seen = "completed" => last[holder] \in succeeded
       /\ seen # "working" => last[holder] \notin active \ revived
  /\ admitted # None => state[holder] = "Dispatching" /\ madeFor[admitted] = holder

(* The interval that is due, or being dispatched, has no run yet.          *)
Owed(s) ==
  \/ state[s] = "Waiting" /\ s \in due
  \/ Dispatching(s) /\ admitted = None
Counted ==
  \A s \in Jobs :
    /\ state[s] = "absent" => s \notin due
    /\ Cardinality(Runs(s)) <= elapsed[s]
    /\ Owed(s) => Cardinality(Runs(s)) < elapsed[s]

(* Only the last run may be neither accomplished nor cleared.              *)
Cleared ==
  \A c \in Pool : LET s == madeFor[c] IN
    s # None /\ c \notin succeeded \cup cleared =>
      /\ state[s] # "Waiting"
      /\ state[s] = "Running" => last[s] = c
      /\ Dispatching(s) => admitted = c

(* Until a fault, only the run recorded or being recorded is at work.      *)
Live(c) == c \in active \ revived
Alone ==
  faults = 0 =>
    /\ \A s \in Jobs : state[s] = "Dispatching" => holder = s
    /\ \A c \in Pool : LET s == madeFor[c] IN
         s # None /\ Live(c) =>
           /\ state[s] \in {"absent", "Running", "Dispatching"}
           /\ state[s] = "Running" => last[s] = c
           /\ state[s] = "Dispatching" => admitted = c
           /\ \A d \in Pool : madeFor[d] = s /\ Live(d) => d = c

IInv == Sorts /\ Numbers /\ Known /\ Held /\ Counted /\ Cleared /\ Alone

LEMMA IInvInit == Init => IInv
<1> SUFFICES ASSUME Init PROVE IInv
  OBVIOUS
<1> USE ScheduleAssumption
<1>1. Sorts /\ Numbers
  BY DEF Init, ChatsInit, Sorts, Numbers, Statuses
<1>2. \A s \in Jobs : Runs(s) = {}
  BY DEF Init, Runs
<1>3. Counted
  BY <1>2, FS_EmptySet DEF Init, Counted, Owed, Dispatching
<1>4. Known /\ Held /\ Cleared /\ Alone
  BY DEF Init, ChatsInit, Known, Held, Cleared, Dispatching, Alone, Live
<1> QED
  BY <1>1, <1>3, <1>4 DEF IInv

(* A conversation that users take up again has a worker.                   *)
LEMMA SendEffect ==
  ASSUME IInv, NEW c \in Pool, UserSend(c)
  PROVE  /\ status[c] # "absent" /\ c \notin active /\ Open
         /\ status' = [status EXCEPT ![c] = "working"] /\ active' = active \cup {c}
         /\ revived' = revived \cup {c}
         /\ UNCHANGED <<stop, rows, tick, host, elapsed, madeFor, succeeded, cleared>>
<1>1. Resume(c) \/ FollowUp(c)
  BY DEF UserSend
<1>2. status[c] # "absent" /\ Launch(c)
  BY <1>1 DEF Resume, FollowUp
<1> QED
  BY <1>2 DEF Launch, UserSend

(* A tick leaves a run that is at work, takes the schedule back to waiting *)
(* after one that completed, and pauses it after any other.                *)
Keeps(s) ==
  seen = "working" /\ last[s] \in active /\ UNCHANGED <<state, enabled, due>>
Returns(s) ==
  /\ seen = "completed"
  /\ state' = [state EXCEPT ![s] = "Waiting"] /\ due' = due \ {s} /\ UNCHANGED enabled
GivesUp(s) ==
  /\ seen # "completed" /\ (seen = "working" => last[s] \notin active)
  /\ state' = [state EXCEPT ![s] = "Needs attention"] /\ enabled' = enabled \ {s}
  /\ UNCHANGED due
LEMMA SettleEffect ==
  ASSUME NEW s \in Jobs, Settle(s)
  PROVE  /\ holder = s /\ seen # None /\ holder' = None /\ seen' = None
         /\ UNCHANGED <<chats, last, admitted, host, ghost>>
         /\ Keeps(s) \/ Returns(s) \/ GivesUp(s)
<1>1. CASE seen = "working" /\ last[s] \in active
  BY <1>1 DEF Settle, Keeps
<1>2. CASE ~(seen = "working" /\ last[s] \in active) /\ seen = "completed"
  BY <1>2 DEF Settle, SetState, Returns
<1>3. CASE ~(seen = "working" /\ last[s] \in active) /\ seen # "completed"
  BY <1>3 DEF Settle, SetState, GivesUp
<1> QED
  BY <1>1, <1>2, <1>3 DEF Settle

(* The conversation admitted for a schedule was not there before.          *)
LEMMA AdmitEffect ==
  ASSUME IInv, NEW s \in Jobs, Admit(s)
  PROVE  \E c \in Pool :
           /\ status[c] = "absent" /\ c \notin active /\ madeFor[c] = None
           /\ holder = s /\ state[s] = "Dispatching" /\ admitted = None /\ admitted' = c
           /\ status' = [status EXCEPT ![c] = "working"] /\ active' = active \cup {c}
           /\ madeFor' = [madeFor EXCEPT ![c] = s]
           /\ UNCHANGED <<stop, rows, holder, seen, host, elapsed, succeeded, revived, cleared>>
<1> DEFINE k == CHOOSE c \in Unused : TRUE
<1>1. k \in Unused
  BY DEF Admit
<1>2. Send(k) /\ admitted' = k /\ madeFor' = [madeFor EXCEPT ![k] = s]
  BY DEF Admit
<1> HIDE DEF k
<1> QED
  BY <1>1, <1>2 DEF Admit, Dispatching, Send, Launch, Unused, IInv, Known

(* The runs of a schedule are counted by a number.                         *)
LEMMA RunsFinite ==
  ASSUME IInv, NEW s \in Jobs
  PROVE  /\ IsFiniteSet(Runs(s)) /\ Cardinality(Runs(s)) \in Nat
         /\ elapsed[s] = 0 => Runs(s) = {}
<1>1. Runs(s) \subseteq Conversations
  BY ScheduleAssumption DEF Runs
<1>2. IsFiniteSet(Runs(s))
  BY <1>1, FS_Subset, ScheduleAssumption
<1>3. Cardinality(Runs(s)) \in Nat
  BY <1>2, FS_CardinalityType
<1>4. elapsed[s] = 0 => Cardinality(Runs(s)) = 0
  BY <1>3 DEF IInv, Counted
<1> QED
  BY <1>2, <1>3, <1>4, FS_EmptySet

(* A running schedule has a run.                                           *)
LEMMA RunOf ==
  ASSUME Sorts, NEW s \in Jobs, state[s] = "Running"
  PROVE  last[s] \in Pool
<1>1. last[s] # None
  BY DEF Sorts
<1>2. last[s] \in Pool \cup {None}
  BY DEF Sorts
<1> QED
  BY <1>1, <1>2

-----------------------------------------------------------------------------
(* Records lead to the runs they were made for.                            *)
LEMMA SortsStep == IInv /\ [Next]_vars => Sorts'
<1> SUFFICES ASSUME IInv, [Next]_vars PROVE Sorts'
  OBVIOUS
<1>0. Sorts /\ Numbers /\ Known /\ Held /\ Counted /\ Cleared /\ Alone
  BY DEF IInv
<1> USE ScheduleAssumption, <1>0
<1>1. CASE TickError
  BY <1>1 DEF TickError, chats, rows, ghost, Sorts, Known, Held, Endings, Statuses
<1>2. CASE Restart
  BY <1>2 DEF Restart, Recover, ghost, Sorts, Known, Held, Endings, Statuses
<1>3. ASSUME NEW s \in Jobs, Create(s) PROVE Sorts'
  <2>1. /\ state' = [state EXCEPT ![s] = "Waiting"] /\ enabled' = enabled \cup {s}
        /\ UNCHANGED <<status, active, stop, last, due, holder, admitted, seen, ticking,
                      madeFor, succeeded, revived, cleared>>
    BY <1>3 DEF Create, SetState, chats, tick, host, ghost
  <2>2. \A t \in Jobs : state'[t] = "Running" => state[t] = "Running"
    BY <2>1 DEF Sorts
  <2>3. /\ state' \in [Jobs -> {"absent", "Waiting", "Dispatching", "Running", "Needs attention"}]
        /\ enabled' \subseteq Jobs
    BY <2>1 DEF Sorts
  <2>4. UNCHANGED <<status, active, stop, last, due, holder, admitted, seen, ticking, madeFor,
                    succeeded, revived, cleared>>
    BY <2>1
  <2> QED
    BY <2>2, <2>3, <2>4 DEF Sorts
<1>4. ASSUME NEW s \in Jobs, Remove(s) PROVE Sorts'
  <2>1. /\ state' = [state EXCEPT ![s] = "absent"] /\ last' = [last EXCEPT ![s] = None]
        /\ enabled' = enabled \ {s} /\ due' = due \ {s}
        /\ UNCHANGED <<status, active, stop, holder, admitted, seen, ticking, madeFor,
                      succeeded, revived, cleared>>
    BY <1>4 DEF Remove, SetState, chats, tick, host
  <2>2. \A t \in Jobs : /\ state'[t] = "Running" => state[t] = "Running" /\ last'[t] = last[t]
                        /\ last'[t] # None => last'[t] = last[t]
    BY <2>1 DEF Sorts
  <2>3. /\ state' \in [Jobs -> {"absent", "Waiting", "Dispatching", "Running", "Needs attention"}]
        /\ last' \in [Jobs -> Pool \cup {None}]
    BY <2>1 DEF Sorts
  <2>4. /\ enabled' \subseteq Jobs /\ due' \subseteq Jobs
        /\ UNCHANGED <<status, active, stop, holder, admitted, seen, ticking, madeFor,
                      succeeded, revived, cleared>>
    BY <2>1 DEF Sorts
  <2> QED
    BY <2>2, <2>3, <2>4 DEF Sorts
<1>5. ASSUME NEW s \in Jobs, Pause(s) PROVE Sorts'
  BY <1>5 DEF Pause, chats, tick, host, ghost, Sorts, Known, Held, Endings, Statuses
<1>6. ASSUME NEW s \in Jobs, Enable(s) PROVE Sorts'
  <2>1. /\ state' = [state EXCEPT ![s] = "Waiting"] /\ last' = [last EXCEPT ![s] = None]
        /\ enabled' = enabled \cup {s} /\ due' = due \ {s} /\ cleared' = cleared \cup Runs(s)
        /\ UNCHANGED <<status, active, stop, holder, admitted, seen, ticking, madeFor,
                      succeeded, revived>>
    BY <1>6 DEF Enable, SetState, chats, tick, host
  <2>2. \A t \in Jobs : /\ state'[t] = "Running" => state[t] = "Running" /\ last'[t] = last[t]
                        /\ last'[t] # None => last'[t] = last[t]
    BY <2>1 DEF Sorts
  <2>3. /\ state' \in [Jobs -> {"absent", "Waiting", "Dispatching", "Running", "Needs attention"}]
        /\ last' \in [Jobs -> Pool \cup {None}]
    BY <2>1 DEF Sorts
  <2>4. enabled' \subseteq Jobs /\ due' \subseteq Jobs /\ cleared' \subseteq Pool
    BY <2>1 DEF Sorts, Runs
  <2>5. UNCHANGED <<status, active, stop, holder, admitted, seen, ticking, madeFor, succeeded,
                    revived>>
    BY <2>1
  <2> QED
    BY <2>2, <2>3, <2>4, <2>5 DEF Sorts
<1>7. ASSUME NEW s \in Jobs, Elapse(s) PROVE Sorts'
  BY <1>7 DEF Elapse, chats, tick, host, Sorts, Known, Held, Endings, Statuses
<1>8. ASSUME NEW s \in Jobs, Look(s) PROVE Sorts'
  BY <1>8 DEF Look, chats, rows, host, ghost, Sorts
<1>9. ASSUME NEW s \in Jobs, Settle(s) PROVE Sorts'
  <2>1. /\ holder = s /\ seen # None /\ holder' = None /\ seen' = None
        /\ UNCHANGED <<status, active, stop, last, admitted, ticking, faults, elapsed, madeFor,
                      succeeded, revived, cleared>>
        /\ Keeps(s) \/ Returns(s) \/ GivesUp(s)
    BY <1>9, SettleEffect DEF chats, host, ghost
  <2>2. CASE Keeps(s)
    BY <2>1, <2>2 DEF Keeps, Sorts
  <2>3. CASE Returns(s)
    BY <2>1, <2>3 DEF Returns, Sorts
  <2>4. CASE GivesUp(s)
    BY <2>1, <2>4 DEF GivesUp, Sorts
  <2> QED
    BY <2>1, <2>2, <2>3, <2>4
<1>10. ASSUME NEW s \in Jobs, Claim(s) PROVE Sorts'
  <2>1. /\ holder' = s
        /\ state' = [state EXCEPT ![s] = "Dispatching"] /\ last' = [last EXCEPT ![s] = None]
        /\ UNCHANGED <<status, active, stop, enabled, due, admitted, seen, ticking, madeFor,
                      succeeded, revived, cleared>>
    BY <1>10 DEF Claim, SetState, chats, host, ghost
  <2>2. \A t \in Jobs : /\ state'[t] = "Running" => state[t] = "Running" /\ last'[t] = last[t]
                        /\ last'[t] # None => last'[t] = last[t]
    BY <2>1 DEF Sorts
  <2>3. /\ state' \in [Jobs -> {"absent", "Waiting", "Dispatching", "Running", "Needs attention"}]
        /\ last' \in [Jobs -> Pool \cup {None}]
    BY <2>1 DEF Sorts
  <2>4. /\ holder' \in Jobs
        /\ UNCHANGED <<status, active, stop, enabled, due, admitted, seen, ticking, madeFor,
                      succeeded, revived, cleared>>
    BY <2>1
  <2> QED
    BY <2>2, <2>3, <2>4 DEF Sorts
<1>11. ASSUME NEW s \in Jobs, Admit(s) PROVE Sorts'
  <2>1. PICK c \in Pool :
           /\ status[c] = "absent" /\ c \notin active /\ madeFor[c] = None
           /\ holder = s /\ state[s] = "Dispatching" /\ admitted = None /\ admitted' = c
           /\ status' = [status EXCEPT ![c] = "working"] /\ active' = active \cup {c}
           /\ madeFor' = [madeFor EXCEPT ![c] = s]
           /\ UNCHANGED <<stop, state, enabled, last, due, holder, seen, ticking, faults,
                         elapsed, succeeded, revived, cleared>>
    BY <1>11, AdmitEffect DEF rows, host
  <2>2. status' \in [Conversations -> Statuses] /\ c \in Conversations
    BY <2>1 DEF Sorts, Statuses
  <2>3. ASSUME NEW t \in Jobs, last[t] # None PROVE madeFor'[last[t]] = t
    <3>1. last[t] \in Pool /\ madeFor[last[t]] = t
      <4>1. last[t] \in Pool \cup {None}
        BY DEF Sorts
      <4> QED
        BY <2>3, <4>1 DEF Sorts
    <3>2. last[t] # c
      BY <2>1, <3>1
    <3> QED
      BY <2>1, <3>1, <3>2 DEF Sorts
  <2>4. madeFor' \in [Pool -> Jobs \cup {None}] /\ active' \subseteq Conversations
    BY <2>1, <2>2 DEF Sorts
  <2>5. stop' \subseteq active' /\ admitted' \in Pool \cup {None}
    BY <2>1 DEF Sorts
  <2> QED
    BY <2>1, <2>2, <2>3, <2>4, <2>5 DEF Sorts
<1>12. ASSUME NEW s \in Jobs, Refused(s) PROVE Sorts'
  <2>1. /\ state' = [state EXCEPT ![s] = "Needs attention"] /\ enabled' = enabled \ {s}
        /\ holder' = None
        /\ UNCHANGED <<status, active, stop, last, due, admitted, seen, ticking, madeFor,
                      succeeded, revived, cleared>>
    BY <1>12 DEF Refused, SetState, chats, host, ghost
  <2>2. \A t \in Jobs : state'[t] = "Running" => state[t] = "Running"
    BY <2>1 DEF Sorts
  <2>3. /\ state' \in [Jobs -> {"absent", "Waiting", "Dispatching", "Running", "Needs attention"}]
        /\ enabled' \subseteq Jobs
    BY <2>1 DEF Sorts
  <2>4. /\ holder' = None
        /\ UNCHANGED <<status, active, stop, last, due, admitted, seen, ticking, madeFor,
                      succeeded, revived, cleared>>
    BY <2>1
  <2> QED
    BY <2>2, <2>3, <2>4 DEF Sorts
<1>13. ASSUME NEW s \in Jobs, Bind(s) PROVE Sorts'
  <2>1. /\ holder = s /\ admitted # None /\ holder' = None /\ admitted' = None
        /\ state' = [state EXCEPT ![s] = "Running"] /\ last' = [last EXCEPT ![s] = admitted]
        /\ UNCHANGED <<status, active, stop, enabled, due, seen, ticking, madeFor, succeeded,
                      revived, cleared>>
    BY <1>13 DEF Bind, Dispatching, SetState, chats, host, ghost
  <2>2. admitted \in Pool /\ madeFor[admitted] = s
    BY <2>1 DEF Sorts, Held
  <2>3. /\ state'[s] = "Running" /\ last'[s] = admitted
        /\ \A t \in Jobs : t # s => state'[t] = state[t] /\ last'[t] = last[t]
    BY <2>1 DEF Sorts
  <2>4. \A t \in Jobs : /\ state'[t] = "Running" => last'[t] # None
                        /\ last'[t] # None => madeFor'[last'[t]] = t
    BY <2>1, <2>2, <2>3 DEF Sorts
  <2>5. /\ state' \in [Jobs -> {"absent", "Waiting", "Dispatching", "Running", "Needs attention"}]
        /\ last' \in [Jobs -> Pool \cup {None}]
    BY <2>1, <2>2 DEF Sorts
  <2>6. /\ holder' = None /\ admitted' = None
        /\ UNCHANGED <<status, active, stop, enabled, due, seen, ticking, madeFor, succeeded,
                      revived, cleared>>
    BY <2>1
  <2> QED
    BY <2>4, <2>5, <2>6 DEF Sorts
<1>14. ASSUME NEW c \in Pool, NEW outcome \in Endings, RunEnd(c, outcome) PROVE Sorts'
  BY <1>14 DEF RunEnd, End, rows, tick, host, Sorts, Known, Held, Endings, Statuses
<1>15. ASSUME NEW c \in Pool, UserStop(c) PROVE Sorts'
  BY <1>15 DEF UserStop, Stop, rows, tick, host, ghost, Sorts, Known, Held, Endings, Statuses
<1>16. ASSUME NEW c \in Pool, UserDelete(c) PROVE Sorts'
  BY <1>16 DEF UserDelete, Delete, rows, tick, host, ghost, Sorts, Known, Held, Endings, Statuses
<1>17. ASSUME NEW c \in Pool, UserSend(c) PROVE Sorts'
  <2>1. /\ status[c] # "absent" /\ c \notin active /\ holder = None
        /\ status' = [status EXCEPT ![c] = "working"] /\ active' = active \cup {c}
        /\ revived' = revived \cup {c}
        /\ UNCHANGED <<stop, state, enabled, last, due, holder, admitted, seen, ticking, faults,
                      elapsed, madeFor, succeeded, cleared>>
    BY <1>17, SendEffect DEF rows, tick, host, Open
  <2> QED
    BY <2>1 DEF Sorts, Statuses
<1>18. CASE UNCHANGED vars
  BY <1>18 DEF vars, chats, rows, tick, host, ghost, Sorts, Known, Held, Endings, Statuses
<1> QED
  BY <1>1, <1>2, <1>3, <1>4, <1>5, <1>6, <1>7, <1>8, <1>9,
     <1>10, <1>11, <1>12, <1>13, <1>14, <1>15, <1>16, <1>17, <1>18 DEF Next

(* Intervals and faults are counted within their bounds.                   *)
LEMMA NumbersStep == IInv /\ [Next]_vars => Numbers'
<1> SUFFICES ASSUME IInv, [Next]_vars PROVE Numbers'
  OBVIOUS
<1>0. Sorts /\ Numbers /\ Known /\ Held /\ Counted /\ Cleared /\ Alone
  BY DEF IInv
<1> USE ScheduleAssumption, <1>0
<1>1. CASE TickError
  BY <1>1 DEF TickError, chats, rows, ghost, Numbers
<1>2. CASE Restart
  <2>1. faults < MaxFaults /\ faults' = faults + 1 /\ elapsed' = elapsed
    BY <1>2 DEF Restart, ghost
  <2> QED
    BY <2>1 DEF Numbers
<1>3. ASSUME NEW s \in Jobs, Create(s) PROVE Numbers'
  BY <1>3 DEF Create, SetState, chats, tick, host, ghost, Numbers
<1>4. ASSUME NEW s \in Jobs, Remove(s) PROVE Numbers'
  BY <1>4 DEF Remove, SetState, chats, tick, host, Numbers
<1>5. ASSUME NEW s \in Jobs, Pause(s) PROVE Numbers'
  BY <1>5 DEF Pause, chats, tick, host, ghost, Numbers
<1>6. ASSUME NEW s \in Jobs, Enable(s) PROVE Numbers'
  BY <1>6 DEF Enable, SetState, chats, tick, host, Numbers
<1>7. ASSUME NEW s \in Jobs, Elapse(s) PROVE Numbers'
  BY <1>7 DEF Elapse, chats, tick, host, Numbers
<1>8. ASSUME NEW s \in Jobs, Look(s) PROVE Numbers'
  BY <1>8 DEF Look, chats, rows, host, ghost, Numbers
<1>9. ASSUME NEW s \in Jobs, Settle(s) PROVE Numbers'
  <2>1. CASE Keeps(s)
    BY <1>9, <2>1, SettleEffect DEF Keeps, Numbers, chats, host, ghost, Held
  <2>2. CASE Returns(s)
    BY <1>9, <2>2, SettleEffect DEF Returns, Numbers, chats, host, ghost, Held
  <2>3. CASE GivesUp(s)
    BY <1>9, <2>3, SettleEffect DEF GivesUp, Numbers, chats, host, ghost, Held
  <2> QED
    BY <1>9, <2>1, <2>2, <2>3, SettleEffect
<1>10. ASSUME NEW s \in Jobs, Claim(s) PROVE Numbers'
  BY <1>10 DEF Claim, SetState, chats, host, ghost, Numbers
<1>11. ASSUME NEW s \in Jobs, Admit(s) PROVE Numbers'
  <2>1. PICK c \in Pool :
           /\ status[c] = "absent" /\ c \notin active /\ madeFor[c] = None
           /\ holder = s /\ state[s] = "Dispatching" /\ admitted = None /\ admitted' = c
           /\ status' = [status EXCEPT ![c] = "working"] /\ active' = active \cup {c}
           /\ madeFor' = [madeFor EXCEPT ![c] = s]
           /\ UNCHANGED <<stop, rows, holder, seen, host, elapsed, succeeded, revived, cleared>>
    BY <1>11, AdmitEffect
  <2> QED
    BY <2>1 DEF rows, host, Numbers
<1>12. ASSUME NEW s \in Jobs, Refused(s) PROVE Numbers'
  BY <1>12 DEF Refused, Dispatching, SetState, chats, host, ghost, Numbers
<1>13. ASSUME NEW s \in Jobs, Bind(s) PROVE Numbers'
  BY <1>13 DEF Bind, Dispatching, SetState, chats, host, ghost, Numbers
<1>14. ASSUME NEW c \in Pool, NEW outcome \in Endings, RunEnd(c, outcome) PROVE Numbers'
  BY <1>14 DEF RunEnd, End, rows, tick, host, Numbers
<1>15. ASSUME NEW c \in Pool, UserStop(c) PROVE Numbers'
  BY <1>15 DEF UserStop, Stop, rows, tick, host, ghost, Numbers
<1>16. ASSUME NEW c \in Pool, UserDelete(c) PROVE Numbers'
  BY <1>16 DEF UserDelete, Delete, rows, tick, host, ghost, Numbers
<1>17. ASSUME NEW c \in Pool, UserSend(c) PROVE Numbers'
  BY <1>17, SendEffect DEF rows, tick, host, Numbers
<1>18. CASE UNCHANGED vars
  BY <1>18 DEF vars, chats, rows, tick, host, ghost, Numbers
<1> QED
  BY <1>1, <1>2, <1>3, <1>4, <1>5, <1>6, <1>7, <1>8, <1>9,
     <1>10, <1>11, <1>12, <1>13, <1>14, <1>15, <1>16, <1>17, <1>18 DEF Next

(* A worker is at work on disk, and what ended completed has succeeded.    *)
LEMMA KnownStep == IInv /\ [Next]_vars => Known'
<1> SUFFICES ASSUME IInv, [Next]_vars PROVE Known'
  OBVIOUS
<1>0. Sorts /\ Numbers /\ Known /\ Held /\ Counted /\ Cleared /\ Alone
  BY DEF IInv
<1> USE ScheduleAssumption, <1>0
<1>1. CASE TickError
  BY <1>1 DEF TickError, chats, rows, ghost, Sorts, Known, Endings, Statuses
<1>2. CASE Restart
  <2>1. UNCHANGED <<status, madeFor, succeeded>> /\ \A c \in active' : status[c] = "working"
    BY <1>2 DEF Restart, Recover, ghost
  <2> QED
    BY <2>1 DEF Known
<1>3. ASSUME NEW s \in Jobs, Create(s) PROVE Known'
  BY <1>3 DEF Create, SetState, chats, tick, host, ghost, Sorts, Known, Endings, Statuses
<1>4. ASSUME NEW s \in Jobs, Remove(s) PROVE Known'
  BY <1>4 DEF Remove, SetState, chats, tick, host, Sorts, Known, Endings, Statuses
<1>5. ASSUME NEW s \in Jobs, Pause(s) PROVE Known'
  BY <1>5 DEF Pause, chats, tick, host, ghost, Sorts, Known, Endings, Statuses
<1>6. ASSUME NEW s \in Jobs, Enable(s) PROVE Known'
  BY <1>6 DEF Enable, SetState, chats, tick, host, Sorts, Known, Endings, Statuses
<1>7. ASSUME NEW s \in Jobs, Elapse(s) PROVE Known'
  BY <1>7 DEF Elapse, chats, tick, host, Sorts, Known, Endings, Statuses
<1>8. ASSUME NEW s \in Jobs, Look(s) PROVE Known'
  BY <1>8 DEF Look, chats, rows, host, ghost, Sorts, Known, Endings, Statuses
<1>9. ASSUME NEW s \in Jobs, Settle(s) PROVE Known'
  <2>1. CASE Keeps(s)
    BY <1>9, <2>1, SettleEffect DEF Keeps, Sorts, Known, Endings, Statuses, chats, host, ghost, Held
  <2>2. CASE Returns(s)
    BY <1>9, <2>2, SettleEffect DEF Returns, Sorts, Known, Endings, Statuses, chats, host, ghost,
       Held
  <2>3. CASE GivesUp(s)
    BY <1>9, <2>3, SettleEffect DEF GivesUp, Sorts, Known, Endings, Statuses, chats, host, ghost,
       Held
  <2> QED
    BY <1>9, <2>1, <2>2, <2>3, SettleEffect
<1>10. ASSUME NEW s \in Jobs, Claim(s) PROVE Known'
  BY <1>10 DEF Claim, SetState, chats, host, ghost, Sorts, Known, Endings, Statuses
<1>11. ASSUME NEW s \in Jobs, Admit(s) PROVE Known'
  <2>1. PICK c \in Pool :
           /\ status[c] = "absent" /\ c \notin active /\ madeFor[c] = None
           /\ holder = s /\ state[s] = "Dispatching" /\ admitted = None /\ admitted' = c
           /\ status' = [status EXCEPT ![c] = "working"] /\ active' = active \cup {c}
           /\ madeFor' = [madeFor EXCEPT ![c] = s]
           /\ UNCHANGED <<stop, state, enabled, last, due, holder, seen, ticking, faults,
                         elapsed, succeeded, revived, cleared>>
    BY <1>11, AdmitEffect DEF rows, host
  <2>2. status'[c] = "working" /\ \A d \in Conversations : d # c => status'[d] = status[d]
    BY <2>1, ScheduleAssumption DEF Sorts
  <2>3. \A d \in Pool : d # c => madeFor'[d] = madeFor[d]
    BY <2>1 DEF Sorts
  <2>4. active \subseteq Conversations
    BY DEF Sorts
  <2> QED
    BY <2>1, <2>2, <2>3, <2>4, ScheduleAssumption DEF Known
<1>12. ASSUME NEW s \in Jobs, Refused(s) PROVE Known'
  BY <1>12 DEF Refused, Dispatching, SetState, chats, host, ghost, Sorts, Known, Endings, Statuses
<1>13. ASSUME NEW s \in Jobs, Bind(s) PROVE Known'
  BY <1>13 DEF Bind, Dispatching, SetState, chats, host, ghost, Sorts, Known, Endings, Statuses
<1>14. ASSUME NEW c \in Pool, NEW outcome \in Endings, RunEnd(c, outcome) PROVE Known'
  <2>1. /\ c \in active /\ active' = active \ {c} /\ UNCHANGED madeFor
        /\ status' = [status EXCEPT ![c] = IF outcome = "unsaved" THEN @ ELSE outcome]
        /\ succeeded' = IF outcome = "completed" THEN succeeded \cup {c} ELSE succeeded
    BY <1>14 DEF RunEnd, End
  <2>2. /\ \A d \in Conversations : d # c => status'[d] = status[d]
        /\ status'[c] = IF outcome = "unsaved" THEN status[c] ELSE outcome
    BY <2>1, ScheduleAssumption DEF Sorts
  <2>3. active \subseteq Conversations /\ status[c] = "working"
    BY <2>1 DEF Sorts, Known
  <2>4. outcome # "absent"
    BY DEF Endings
  <2> QED
    BY <2>1, <2>2, <2>3, <2>4, ScheduleAssumption DEF Known
<1>15. ASSUME NEW c \in Pool, UserStop(c) PROVE Known'
  BY <1>15 DEF UserStop, Stop, rows, tick, host, ghost, Sorts, Known, Endings, Statuses
<1>16. ASSUME NEW c \in Pool, UserDelete(c) PROVE Known'
  BY <1>16 DEF UserDelete, Delete, rows, tick, host, ghost, Sorts, Known
<1>17. ASSUME NEW c \in Pool, UserSend(c) PROVE Known'
  <2>1. /\ status[c] # "absent" /\ c \notin active /\ holder = None
        /\ status' = [status EXCEPT ![c] = "working"] /\ active' = active \cup {c}
        /\ revived' = revived \cup {c}
        /\ UNCHANGED <<stop, state, enabled, last, due, holder, admitted, seen, ticking, faults,
                      elapsed, madeFor, succeeded, cleared>>
    BY <1>17, SendEffect DEF rows, tick, host, Open
  <2> QED
    BY <2>1 DEF Sorts, Known
<1>18. CASE UNCHANGED vars
  BY <1>18 DEF vars, chats, rows, tick, host, ghost, Sorts, Known, Endings, Statuses
<1> QED
  BY <1>1, <1>2, <1>3, <1>4, <1>5, <1>6, <1>7, <1>8, <1>9,
     <1>10, <1>11, <1>12, <1>13, <1>14, <1>15, <1>16, <1>17, <1>18 DEF Next

(* Nobody moves the schedule that a tick works on.                         *)
LEMMA HeldStep == IInv /\ [Next]_vars => Held'
<1> SUFFICES ASSUME IInv, [Next]_vars PROVE Held'
  OBVIOUS
<1>0. Sorts /\ Numbers /\ Known /\ Held /\ Counted /\ Cleared /\ Alone
  BY DEF IInv
<1> USE ScheduleAssumption, <1>0
<1>1. CASE TickError
  BY <1>1 DEF TickError, chats, rows, ghost, Sorts, Known, Held, Open, Dispatching
<1>2. CASE Restart
  BY <1>2 DEF Restart, Recover, ghost, Sorts, Known, Held, Open, Dispatching
<1>3. ASSUME NEW s \in Jobs, Create(s) PROVE Held'
  BY <1>3 DEF Create, SetState, chats, tick, host, ghost, Sorts, Known, Held, Open, Dispatching
<1>4. ASSUME NEW s \in Jobs, Remove(s) PROVE Held'
  BY <1>4 DEF Remove, SetState, chats, tick, host, Sorts, Known, Held, Open, Dispatching
<1>5. ASSUME NEW s \in Jobs, Pause(s) PROVE Held'
  BY <1>5 DEF Pause, chats, tick, host, ghost, Sorts, Known, Held, Open, Dispatching
<1>6. ASSUME NEW s \in Jobs, Enable(s) PROVE Held'
  BY <1>6 DEF Enable, SetState, chats, tick, host, Sorts, Known, Held, Open, Dispatching
<1>7. ASSUME NEW s \in Jobs, Elapse(s) PROVE Held'
  BY <1>7 DEF Elapse, chats, tick, host, Sorts, Known, Held, Open, Dispatching
<1>8. ASSUME NEW s \in Jobs, Look(s) PROVE Held'
  <2>1. /\ holder = None /\ holder' = s /\ seen' = status[last[s]] /\ state[s] = "Running"
        /\ UNCHANGED <<status, active, stop, state, last, admitted, madeFor, succeeded, revived>>
    BY <1>8 DEF Look, Open, chats, rows, host, ghost
  <2>2. last[s] \in Pool
    BY <2>1, RunOf
  <2>3. /\ seen' = "completed" => last[s] \in succeeded
        /\ seen' # "working" => last[s] \notin active
    BY <2>1, <2>2 DEF Known
  <2> QED
    BY <2>1, <2>3 DEF Held
<1>9. ASSUME NEW s \in Jobs, Settle(s) PROVE Held'
  <2>1. /\ holder = s /\ seen # None /\ holder' = None /\ seen' = None
        /\ UNCHANGED <<status, active, stop, last, admitted, ticking, faults, elapsed, madeFor,
                      succeeded, revived, cleared>>
        /\ Keeps(s) \/ Returns(s) \/ GivesUp(s)
    BY <1>9, SettleEffect DEF chats, host, ghost
  <2>2. CASE Keeps(s)
    BY <2>1, <2>2 DEF Keeps, Sorts, Held
  <2>3. CASE Returns(s)
    BY <2>1, <2>3 DEF Returns, Sorts, Held
  <2>4. CASE GivesUp(s)
    BY <2>1, <2>4 DEF GivesUp, Sorts, Held
  <2> QED
    BY <2>1, <2>2, <2>3, <2>4
<1>10. ASSUME NEW s \in Jobs, Claim(s) PROVE Held'
  BY <1>10 DEF Claim, SetState, chats, host, ghost, Sorts, Known, Held, Open, Dispatching
<1>11. ASSUME NEW s \in Jobs, Admit(s) PROVE Held'
  <2>1. PICK c \in Pool :
           /\ status[c] = "absent" /\ c \notin active /\ madeFor[c] = None
           /\ holder = s /\ state[s] = "Dispatching" /\ admitted = None /\ admitted' = c
           /\ status' = [status EXCEPT ![c] = "working"] /\ active' = active \cup {c}
           /\ madeFor' = [madeFor EXCEPT ![c] = s]
           /\ UNCHANGED <<stop, state, enabled, last, due, holder, seen, ticking, faults,
                         elapsed, succeeded, revived, cleared>>
    BY <1>11, AdmitEffect DEF rows, host
  <2> QED
    BY <2>1 DEF Sorts, Held
<1>12. ASSUME NEW s \in Jobs, Refused(s) PROVE Held'
  BY <1>12 DEF Refused, Dispatching, SetState, chats, host, ghost, Sorts, Known, Held, Open,
      Dispatching
<1>13. ASSUME NEW s \in Jobs, Bind(s) PROVE Held'
  BY <1>13 DEF Bind, Dispatching, SetState, chats, host, ghost, Sorts, Known, Held, Open,
      Dispatching
<1>14. ASSUME NEW c \in Pool, NEW outcome \in Endings, RunEnd(c, outcome) PROVE Held'
  BY <1>14 DEF RunEnd, End, rows, tick, host, Sorts, Known, Held, Open, Dispatching
<1>15. ASSUME NEW c \in Pool, UserStop(c) PROVE Held'
  BY <1>15 DEF UserStop, Stop, rows, tick, host, ghost, Sorts, Known, Held, Open, Dispatching
<1>16. ASSUME NEW c \in Pool, UserDelete(c) PROVE Held'
  BY <1>16 DEF UserDelete, Delete, rows, tick, host, ghost, Sorts, Known, Held, Open, Dispatching
<1>17. ASSUME NEW c \in Pool, UserSend(c) PROVE Held'
  <2>1. /\ status[c] # "absent" /\ c \notin active /\ holder = None
        /\ status' = [status EXCEPT ![c] = "working"] /\ active' = active \cup {c}
        /\ revived' = revived \cup {c}
        /\ UNCHANGED <<stop, state, enabled, last, due, holder, admitted, seen, ticking, faults,
                      elapsed, madeFor, succeeded, cleared>>
    BY <1>17, SendEffect DEF rows, tick, host, Open
  <2> QED
    BY <2>1 DEF Sorts, Held
<1>18. CASE UNCHANGED vars
  BY <1>18 DEF vars, chats, rows, tick, host, ghost, Sorts, Known, Held, Open, Dispatching
<1> QED
  BY <1>1, <1>2, <1>3, <1>4, <1>5, <1>6, <1>7, <1>8, <1>9,
     <1>10, <1>11, <1>12, <1>13, <1>14, <1>15, <1>16, <1>17, <1>18 DEF Next

(* A run takes up the interval that was due.                               *)
LEMMA CountedStep == IInv /\ [Next]_vars => Counted'
<1> SUFFICES ASSUME IInv, [Next]_vars PROVE Counted'
  OBVIOUS
<1>0. Sorts /\ Numbers /\ Known /\ Held /\ Counted /\ Cleared /\ Alone
  BY DEF IInv
<1> USE ScheduleAssumption, <1>0
<1>1. CASE TickError
  <2>1. \A t \in Jobs : Runs(t)' = Runs(t)
    BY <1>1 DEF TickError, chats, rows, ghost, Runs
  <2> QED
    BY <1>1, <2>1, RunsFinite DEF TickError, chats, rows, ghost, Sorts, Known, Held, Counted,
       Owed, Dispatching, Open
<1>2. CASE Restart
  <2>1. \A t \in Jobs : Runs(t)' = Runs(t)
    BY <1>2 DEF Restart, Recover, ghost, Runs
  <2> QED
    BY <1>2, <2>1, RunsFinite DEF Restart, Recover, ghost, Sorts, Known, Held, Counted, Owed,
       Dispatching, Open
<1>3. ASSUME NEW s \in Jobs, Create(s) PROVE Counted'
  <2>1. \A t \in Jobs : Runs(t)' = Runs(t)
    BY <1>3 DEF Create, SetState, chats, tick, host, ghost, Runs
  <2> QED
    BY <1>3, <2>1, RunsFinite DEF Create, SetState, chats, tick, host, ghost, Sorts, Known, Held,
       Counted, Owed, Dispatching, Open
<1>4. ASSUME NEW s \in Jobs, Remove(s) PROVE Counted'
  <2>1. \A t \in Jobs : Runs(t)' = Runs(t)
    BY <1>4 DEF Remove, Runs
  <2>2. elapsed'[s] >= elapsed[s] /\ state'[s] = "absent" /\ s \notin due'
    BY <1>4 DEF Remove, SetState, Numbers, Sorts
  <2>3. \A t \in Jobs \ {s} : state'[t] = state[t] /\ elapsed'[t] = elapsed[t] /\ (t \in due' <=> t \in due)
    BY <1>4 DEF Remove, SetState, Numbers, Sorts
  <2> QED
    BY <1>4, <2>1, <2>2, <2>3, RunsFinite DEF Remove, tick, Numbers, Counted, Owed, Dispatching
<1>5. ASSUME NEW s \in Jobs, Pause(s) PROVE Counted'
  <2>1. \A t \in Jobs : Runs(t)' = Runs(t)
    BY <1>5 DEF Pause, chats, tick, host, ghost, Runs
  <2> QED
    BY <1>5, <2>1, RunsFinite DEF Pause, chats, tick, host, ghost, Sorts, Known, Held, Counted,
       Owed, Dispatching, Open
<1>6. ASSUME NEW s \in Jobs, Enable(s) PROVE Counted'
  <2>1. \A t \in Jobs : Runs(t)' = Runs(t)
    BY <1>6 DEF Enable, SetState, chats, tick, host, Runs
  <2> QED
    BY <1>6, <2>1, RunsFinite DEF Enable, SetState, chats, tick, host, Sorts, Known, Held,
       Counted, Owed, Dispatching, Open
<1>7. ASSUME NEW s \in Jobs, Elapse(s) PROVE Counted'
  <2>1. \A t \in Jobs : Runs(t)' = Runs(t)
    BY <1>7 DEF Elapse, Runs
  <2>2. elapsed'[s] = elapsed[s] + 1 /\ state[s] = "Waiting" /\ s \notin due
    BY <1>7 DEF Elapse, Numbers
  <2>3. \A t \in Jobs \ {s} : elapsed'[t] = elapsed[t] /\ (t \in due' <=> t \in due)
    BY <1>7 DEF Elapse, Numbers
  <2> QED
    BY <1>7, <2>1, <2>2, <2>3, RunsFinite DEF Elapse, tick, Numbers, Counted, Owed, Dispatching
<1>8. ASSUME NEW s \in Jobs, Look(s) PROVE Counted'
  <2>1. \A t \in Jobs : Runs(t)' = Runs(t)
    BY <1>8 DEF Look, chats, rows, host, ghost, Runs
  <2> QED
    BY <1>8, <2>1, RunsFinite DEF Look, chats, rows, host, ghost, Sorts, Known, Held, Counted,
       Owed, Dispatching, Open
<1>9. ASSUME NEW s \in Jobs, Settle(s) PROVE Counted'
  <2>1. /\ holder = s /\ seen # None /\ holder' = None /\ seen' = None
        /\ UNCHANGED <<status, active, stop, last, admitted, ticking, faults, elapsed, madeFor,
                      succeeded, revived, cleared>>
        /\ Keeps(s) \/ Returns(s) \/ GivesUp(s)
    BY <1>9, SettleEffect DEF chats, host, ghost
  <2>5. \A t \in Jobs : Runs(t)' = Runs(t)
    BY <2>1 DEF Runs
  <2>2. CASE Keeps(s)
    BY <2>1, <2>2, <2>5, RunsFinite DEF Keeps, Sorts, Held, Counted, Owed, Dispatching
  <2>3. CASE Returns(s)
    BY <2>1, <2>3, <2>5, RunsFinite DEF Returns, Sorts, Held, Counted, Owed, Dispatching
  <2>4. CASE GivesUp(s)
    BY <2>1, <2>4, <2>5, RunsFinite DEF GivesUp, Sorts, Held, Counted, Owed, Dispatching
  <2> QED
    BY <2>1, <2>2, <2>3, <2>4
<1>10. ASSUME NEW s \in Jobs, Claim(s) PROVE Counted'
  <2>1. \A t \in Jobs : Runs(t)' = Runs(t)
    BY <1>10 DEF Claim, SetState, chats, host, ghost, Runs
  <2> QED
    BY <1>10, <2>1, RunsFinite DEF Claim, SetState, chats, host, ghost, Sorts, Known, Held,
       Counted, Owed, Dispatching, Open
<1>11. ASSUME NEW s \in Jobs, Admit(s) PROVE Counted'
  <2>1. PICK c \in Pool :
           /\ status[c] = "absent" /\ c \notin active /\ madeFor[c] = None
           /\ holder = s /\ state[s] = "Dispatching" /\ admitted = None /\ admitted' = c
           /\ status' = [status EXCEPT ![c] = "working"] /\ active' = active \cup {c}
           /\ madeFor' = [madeFor EXCEPT ![c] = s]
           /\ UNCHANGED <<stop, state, enabled, last, due, holder, seen, ticking, faults,
                         elapsed, succeeded, revived, cleared>>
    BY <1>11, AdmitEffect DEF rows, host
  <2>2. Runs(s)' = Runs(s) \cup {c} /\ c \notin Runs(s)
    <3>1. madeFor'[c] = s /\ \A d \in Pool : d # c => madeFor'[d] = madeFor[d]
      BY <2>1 DEF Sorts
    <3>2. madeFor[c] # s
      BY <2>1
    <3> QED
      BY <3>1, <3>2 DEF Runs
  <2>3. ASSUME NEW t \in Jobs \ {s} PROVE Runs(t)' = Runs(t)
    <3>1. t # None
      OBVIOUS
    <3>2. \A d \in Pool : madeFor'[d] = t <=> madeFor[d] = t
      BY <2>1, <3>1 DEF Sorts
    <3> QED
      BY <3>2 DEF Runs
  <2>4. Cardinality(Runs(s)') = Cardinality(Runs(s)) + 1
    <3>1. IsFiniteSet(Runs(s))
      BY RunsFinite
    <3> QED
      BY <2>2, <3>1, FS_AddElement
  <2>5. Cardinality(Runs(s)) \in Nat /\ elapsed[s] \in Nat /\ Cardinality(Runs(s)) < elapsed[s]
    BY <2>1, RunsFinite DEF Numbers, Counted, Owed, Dispatching
  <2>6. Cardinality(Runs(s)') <= elapsed[s] /\ admitted' # None
    BY <2>1, <2>4, <2>5
  <2> QED
    BY <2>1, <2>3, <2>6 DEF Counted, Owed, Dispatching
<1>12. ASSUME NEW s \in Jobs, Refused(s) PROVE Counted'
  <2>1. \A t \in Jobs : Runs(t)' = Runs(t)
    BY <1>12 DEF Refused, Dispatching, SetState, chats, host, ghost, Runs
  <2> QED
    BY <1>12, <2>1, RunsFinite DEF Refused, Dispatching, SetState, chats, host, ghost, Sorts,
       Known, Held, Counted, Owed, Dispatching, Open
<1>13. ASSUME NEW s \in Jobs, Bind(s) PROVE Counted'
  <2>1. \A t \in Jobs : Runs(t)' = Runs(t)
    BY <1>13 DEF Bind, Dispatching, SetState, chats, host, ghost, Runs
  <2> QED
    BY <1>13, <2>1, RunsFinite DEF Bind, Dispatching, SetState, chats, host, ghost, Sorts, Known,
       Held, Counted, Owed, Dispatching, Open
<1>14. ASSUME NEW c \in Pool, NEW outcome \in Endings, RunEnd(c, outcome) PROVE Counted'
  <2>1. \A t \in Jobs : Runs(t)' = Runs(t)
    BY <1>14 DEF RunEnd, End, rows, tick, host, Runs
  <2> QED
    BY <1>14, <2>1, RunsFinite DEF RunEnd, End, rows, tick, host, Sorts, Known, Held, Counted,
       Owed, Dispatching, Open
<1>15. ASSUME NEW c \in Pool, UserStop(c) PROVE Counted'
  <2>1. \A t \in Jobs : Runs(t)' = Runs(t)
    BY <1>15 DEF UserStop, Stop, rows, tick, host, ghost, Runs
  <2> QED
    BY <1>15, <2>1, RunsFinite DEF UserStop, Stop, rows, tick, host, ghost, Sorts, Known, Held,
       Counted, Owed, Dispatching, Open
<1>16. ASSUME NEW c \in Pool, UserDelete(c) PROVE Counted'
  <2>1. \A t \in Jobs : Runs(t)' = Runs(t)
    BY <1>16 DEF UserDelete, Delete, rows, tick, host, ghost, Runs
  <2> QED
    BY <1>16, <2>1, RunsFinite DEF UserDelete, Delete, rows, tick, host, ghost, Sorts, Known,
       Held, Counted, Owed, Dispatching, Open
<1>17. ASSUME NEW c \in Pool, UserSend(c) PROVE Counted'
  <2>1. \A t \in Jobs : Runs(t)' = Runs(t)
    BY <1>17, SendEffect DEF rows, tick, host, Runs
  <2> QED
    BY <1>17, <2>1, RunsFinite, SendEffect DEF rows, tick, host, Sorts, Known, Held, Counted,
       Owed, Dispatching, Open
<1>18. CASE UNCHANGED vars
  <2>1. \A t \in Jobs : Runs(t)' = Runs(t)
    BY <1>18 DEF vars, chats, rows, tick, host, ghost, Runs
  <2> QED
    BY <1>18, <2>1, RunsFinite DEF vars, chats, rows, tick, host, ghost, Sorts, Known, Held,
       Counted, Owed, Dispatching, Open
<1> QED
  BY <1>1, <1>2, <1>3, <1>4, <1>5, <1>6, <1>7, <1>8, <1>9,
     <1>10, <1>11, <1>12, <1>13, <1>14, <1>15, <1>16, <1>17, <1>18 DEF Next

(* A schedule waits again when its last run has succeeded or is cleared.   *)
LEMMA ClearedStep == IInv /\ [Next]_vars => Cleared'
<1> SUFFICES ASSUME IInv, [Next]_vars PROVE Cleared'
  OBVIOUS
<1>0. Sorts /\ Numbers /\ Known /\ Held /\ Counted /\ Cleared /\ Alone
  BY DEF IInv
<1> USE ScheduleAssumption, <1>0
<1>1. CASE TickError
  BY <1>1 DEF TickError, chats, rows, ghost, Sorts, Known, Held, Cleared, Dispatching, Open
<1>2. CASE Restart
  BY <1>2 DEF Restart, Recover, ghost, Sorts, Known, Held, Cleared, Dispatching, Open
<1>3. ASSUME NEW s \in Jobs, Create(s) PROVE Cleared'
  <2>1. \A c \in Pool : madeFor[c] # s
    BY <1>3, RunsFinite DEF Create, Runs
  <2> QED
    BY <1>3, <2>1 DEF Create, SetState, chats, tick, host, ghost, Sorts, Known, Held, Cleared,
       Dispatching, Open
<1>4. ASSUME NEW s \in Jobs, Remove(s) PROVE Cleared'
  BY <1>4 DEF Remove, SetState, chats, tick, host, Sorts, Known, Held, Cleared, Dispatching, Open
<1>5. ASSUME NEW s \in Jobs, Pause(s) PROVE Cleared'
  BY <1>5 DEF Pause, chats, tick, host, ghost, Sorts, Known, Held, Cleared, Dispatching, Open
<1>6. ASSUME NEW s \in Jobs, Enable(s) PROVE Cleared'
  BY <1>6 DEF Enable, SetState, chats, tick, host, Runs, Sorts, Known, Held, Cleared, Dispatching,
     Open
<1>7. ASSUME NEW s \in Jobs, Elapse(s) PROVE Cleared'
  BY <1>7 DEF Elapse, chats, tick, host, Sorts, Known, Held, Cleared, Dispatching, Open
<1>8. ASSUME NEW s \in Jobs, Look(s) PROVE Cleared'
  BY <1>8 DEF Look, chats, rows, host, ghost, Sorts, Known, Held, Cleared, Dispatching, Open
<1>9. ASSUME NEW s \in Jobs, Settle(s) PROVE Cleared'
  <2>1. /\ holder = s /\ seen # None /\ holder' = None /\ seen' = None
        /\ UNCHANGED <<status, active, stop, last, admitted, ticking, faults, elapsed, madeFor,
                      succeeded, revived, cleared>>
        /\ Keeps(s) \/ Returns(s) \/ GivesUp(s)
    BY <1>9, SettleEffect DEF chats, host, ghost
  <2>2. CASE Keeps(s)
    BY <2>1, <2>2 DEF Keeps, Sorts, Held, Cleared, Dispatching
  <2>3. CASE Returns(s)
    <3>1. state[s] = "Running" /\ last[s] \in succeeded
      BY <2>1, <2>3 DEF Returns, Held
    <3>2. \A c \in Pool : madeFor[c] = s => c \in succeeded \cup cleared
      BY <3>1 DEF Cleared
    <3>3. /\ \A t \in Jobs : t # s => state'[t] = state[t]
          /\ UNCHANGED <<last, madeFor, succeeded, cleared>> /\ holder' = None
      BY <2>1, <2>3 DEF Returns
    <3>4. madeFor \in [Pool -> Jobs \cup {None}] /\ None \notin Jobs
      BY ScheduleAssumption DEF Sorts
    <3> QED
      BY <3>2, <3>3, <3>4 DEF Cleared, Dispatching
  <2>4. CASE GivesUp(s)
    BY <2>1, <2>4 DEF GivesUp, Sorts, Held, Cleared, Dispatching
  <2> QED
    BY <2>1, <2>2, <2>3, <2>4
<1>10. ASSUME NEW s \in Jobs, Claim(s) PROVE Cleared'
  BY <1>10 DEF Claim, SetState, chats, host, ghost, Sorts, Known, Held, Cleared, Dispatching, Open
<1>11. ASSUME NEW s \in Jobs, Admit(s) PROVE Cleared'
  <2>1. PICK c \in Pool :
           /\ status[c] = "absent" /\ c \notin active /\ madeFor[c] = None
           /\ holder = s /\ state[s] = "Dispatching" /\ admitted = None /\ admitted' = c
           /\ status' = [status EXCEPT ![c] = "working"] /\ active' = active \cup {c}
           /\ madeFor' = [madeFor EXCEPT ![c] = s]
           /\ UNCHANGED <<stop, state, enabled, last, due, holder, seen, ticking, faults,
                         elapsed, succeeded, revived, cleared>>
    BY <1>11, AdmitEffect DEF rows, host
  <2>2. \A d \in Pool : madeFor[d] = s => d \in succeeded \cup cleared
    BY <2>1 DEF Cleared, Dispatching
  <2>3. /\ madeFor'[c] = s /\ \A d \in Pool : d # c => madeFor'[d] = madeFor[d]
        /\ \A t \in Jobs : t # s => Dispatching(t)' = Dispatching(t)
    BY <2>1 DEF Sorts, Dispatching
  <2>4. ASSUME NEW d \in Pool, madeFor'[d] # None, d \notin (succeeded \cup cleared)'
        PROVE  /\ state'[madeFor'[d]] # "Waiting"
               /\ state'[madeFor'[d]] = "Running" => last'[madeFor'[d]] = d
               /\ holder' = madeFor'[d] /\ state'[madeFor'[d]] = "Dispatching" => admitted' = d
    <3>1. CASE d = c
      <4>1. state'[s] = "Dispatching" /\ admitted' = c /\ madeFor'[d] = s
        BY <2>1, <2>3, <3>1
      <4> QED
        BY <3>1, <4>1
    <3>2. CASE d # c
      <4>1. madeFor'[d] = madeFor[d] /\ d \notin succeeded \cup cleared
        BY <2>1, <2>3, <2>4, <3>2
      <4>2. madeFor[d] # s /\ madeFor[d] \in Jobs
        BY <2>2, <2>4, <4>1 DEF Sorts
      <4>3. /\ state[madeFor[d]] # "Waiting"
            /\ state[madeFor[d]] = "Running" => last[madeFor[d]] = d
        BY <2>1, <2>4, <4>1, <4>2 DEF Cleared
      <4>4. state' = state /\ last' = last /\ holder = s /\ holder' = holder
        BY <2>1
      <4> QED
        BY <4>1, <4>2, <4>3, <4>4
    <3> QED
      BY <3>1, <3>2
  <2> QED
    BY <2>4 DEF Cleared, Dispatching
<1>12. ASSUME NEW s \in Jobs, Refused(s) PROVE Cleared'
  BY <1>12 DEF Refused, Dispatching, SetState, chats, host, ghost, Sorts, Known, Held, Cleared,
      Dispatching, Open
<1>13. ASSUME NEW s \in Jobs, Bind(s) PROVE Cleared'
  <2>1. /\ holder = s /\ state[s] = "Dispatching" /\ admitted # None /\ holder' = None
        /\ state' = [state EXCEPT ![s] = "Running"] /\ last' = [last EXCEPT ![s] = admitted]
        /\ UNCHANGED <<madeFor, succeeded, cleared>>
    BY <1>13 DEF Bind, Dispatching, SetState, chats, host, ghost
  <2>2. /\ state'[s] = "Running" /\ last'[s] = admitted
        /\ \A t \in Jobs : t # s => state'[t] = state[t] /\ last'[t] = last[t]
    BY <2>1 DEF Sorts
  <2>3. ASSUME NEW c \in Pool, madeFor[c] # None, c \notin succeeded \cup cleared
        PROVE  /\ state'[madeFor[c]] # "Waiting"
               /\ state'[madeFor[c]] = "Running" => last'[madeFor[c]] = c
    <3>1. /\ state[madeFor[c]] # "Waiting"
          /\ state[madeFor[c]] = "Running" => last[madeFor[c]] = c
          /\ madeFor[c] = s => admitted = c
      BY <2>1, <2>3 DEF Cleared, Dispatching
    <3>2. madeFor[c] \in Jobs
      BY <2>3 DEF Sorts
    <3> QED
      BY <2>2, <3>1, <3>2
  <2>4. \A t \in Jobs : ~(holder' = t /\ state'[t] = "Dispatching")
    BY <2>1, ScheduleAssumption
  <2>5. madeFor \in [Pool -> Jobs \cup {None}]
    BY DEF Sorts
  <2>6. UNCHANGED <<madeFor, succeeded, cleared>>
    BY <2>1
  <2> QED
    BY <2>3, <2>4, <2>5, <2>6 DEF Cleared, Dispatching
<1>14. ASSUME NEW c \in Pool, NEW outcome \in Endings, RunEnd(c, outcome) PROVE Cleared'
  BY <1>14 DEF RunEnd, End, rows, tick, host, Sorts, Known, Held, Cleared, Dispatching, Open
<1>15. ASSUME NEW c \in Pool, UserStop(c) PROVE Cleared'
  BY <1>15 DEF UserStop, Stop, rows, tick, host, ghost, Sorts, Known, Held, Cleared,
      Dispatching, Open
<1>16. ASSUME NEW c \in Pool, UserDelete(c) PROVE Cleared'
  BY <1>16 DEF UserDelete, Delete, rows, tick, host, ghost, Sorts, Known, Held, Cleared,
      Dispatching, Open
<1>17. ASSUME NEW c \in Pool, UserSend(c) PROVE Cleared'
  BY <1>17, SendEffect DEF rows, tick, host, Sorts, Known, Held, Cleared, Dispatching, Open
<1>18. CASE UNCHANGED vars
  BY <1>18 DEF vars, chats, rows, tick, host, ghost, Sorts, Known, Held, Cleared, Dispatching, Open
<1> QED
  BY <1>1, <1>2, <1>3, <1>4, <1>5, <1>6, <1>7, <1>8, <1>9,
     <1>10, <1>11, <1>12, <1>13, <1>14, <1>15, <1>16, <1>17, <1>18 DEF Next

(* A step that moves one schedule keeps Alone when none of its runs is at  *)
(* work, but the one it records, or it is gone.                            *)
LEMMA Moved ==
  ASSUME IInv, NEW s \in Jobs, holder \in {None, s}, state'[s] = "Dispatching" => holder' = s,
         \A t \in Jobs : t # s => state'[t] = state[t] /\ last'[t] = last[t],
         UNCHANGED <<active, faults, madeFor, revived>>,
         faults = 0 => \A c \in Pool : madeFor[c] = s /\ Live(c) =>
                          \/ state'[s] = "absent"
                          \/ state'[s] = "Running" /\ last'[s] = c
  PROVE  Alone'
<1>1. None \notin Jobs /\ \A c \in Pool : Live(c)' <=> Live(c)
  BY ScheduleAssumption DEF Live
<1>2. SUFFICES ASSUME faults = 0 PROVE Alone'
  BY DEF Alone
<1>3. \A t \in Jobs : t # s => state[t] # "Dispatching"
  BY <1>1, <1>2 DEF IInv, Alone
<1>4. \A t \in Jobs : state'[t] = "Dispatching" => holder' = t
  BY <1>3
<1>5. ASSUME NEW c \in Pool, madeFor[c] # None, Live(c)
      PROVE  /\ state'[madeFor[c]] \in {"absent", "Running", "Dispatching"}
             /\ state'[madeFor[c]] = "Running" => last'[madeFor[c]] = c
             /\ state'[madeFor[c]] # "Dispatching"
             /\ \A d \in Pool : madeFor[d] = madeFor[c] /\ Live(d) => d = c
  <2>1. /\ state[madeFor[c]] \in {"absent", "Running", "Dispatching"}
        /\ state[madeFor[c]] = "Running" => last[madeFor[c]] = c
        /\ \A d \in Pool : madeFor[d] = madeFor[c] /\ Live(d) => d = c
    BY <1>2, <1>5 DEF IInv, Alone
  <2>2. madeFor[c] \in Jobs
    BY <1>5 DEF IInv, Sorts
  <2>3. CASE madeFor[c] = s
    BY <1>2, <1>5, <2>1, <2>3
  <2>4. CASE madeFor[c] # s
    BY <1>3, <2>1, <2>2, <2>4
  <2> QED
    BY <2>3, <2>4
<1>6. madeFor' = madeFor
  OBVIOUS
<1> QED
  BY <1>1, <1>4, <1>5, <1>6 DEF Alone

(* A run is not followed by another before it has ended.                   *)
LEMMA AloneStep == IInv /\ [Next]_vars => Alone'
<1> SUFFICES ASSUME IInv, [Next]_vars PROVE Alone'
  OBVIOUS
<1>0. Sorts /\ Numbers /\ Known /\ Held /\ Counted /\ Cleared /\ Alone
  BY DEF IInv
<1> USE ScheduleAssumption, <1>0
<1>1. CASE TickError
  BY <1>1 DEF TickError, Numbers, Alone
<1>2. CASE Restart
  <2>1. faults' = faults + 1
    BY <1>2 DEF Restart
  <2> QED
    BY <2>1 DEF Numbers, Alone
<1>3. ASSUME NEW s \in Jobs, Create(s) PROVE Alone'
  <2>1. \A c \in Pool : madeFor[c] # s
    BY <1>3, RunsFinite DEF Create, Runs
  <2>2. /\ holder = None /\ state' = [state EXCEPT ![s] = "Waiting"]
        /\ UNCHANGED <<last, active, faults, madeFor, revived>>
    BY <1>3 DEF Create, SetState, Open, chats, host, ghost
  <2>3. state'[s] = "Waiting" /\ \A t \in Jobs : t # s => state'[t] = state[t]
    BY <2>2 DEF Sorts
  <2> QED
    BY <2>1, <2>2, <2>3, Moved
<1>4. ASSUME NEW s \in Jobs, Remove(s) PROVE Alone'
  <2>1. /\ holder = None /\ state' = [state EXCEPT ![s] = "absent"]
        /\ last' = [last EXCEPT ![s] = None]
        /\ UNCHANGED <<active, faults, madeFor, revived>>
    BY <1>4 DEF Remove, SetState, Open, chats, host
  <2>2. /\ state'[s] = "absent"
        /\ \A t \in Jobs : t # s => state'[t] = state[t] /\ last'[t] = last[t]
    BY <2>1 DEF Sorts
  <2> QED
    BY <2>1, <2>2, Moved
<1>5. ASSUME NEW s \in Jobs, Pause(s) PROVE Alone'
  BY <1>5 DEF Pause, chats, tick, host, ghost, Sorts, Known, Held, Alone, Live, Dispatching,
      Open, Finished, Reads
<1>6. ASSUME NEW s \in Jobs, Enable(s) PROVE Alone'
  <2>1. last[s] # None => last[s] \notin active
    BY <1>6 DEF Enable, Finished, Reads, Known
  <2>2. ASSUME faults = 0, NEW c \in Pool, madeFor[c] = s PROVE ~Live(c)
    <3>1. state[s] # "absent" /\ (state[s] = "Dispatching" => holder = s) /\ holder = None
      BY <1>6, <2>2 DEF Enable, Open, Alone
    <3>2. Live(c) => state[s] = "Running" /\ last[s] = c
      BY <2>2, <3>1 DEF Alone
    <3> QED
      BY <2>1, <3>2 DEF Live
  <2>3. /\ holder = None
        /\ state' = [state EXCEPT ![s] = "Waiting"] /\ last' = [last EXCEPT ![s] = None]
        /\ UNCHANGED <<active, faults, madeFor, revived>>
    BY <1>6 DEF Enable, SetState, Open, chats, host
  <2>4. /\ state'[s] = "Waiting"
        /\ \A t \in Jobs : t # s => state'[t] = state[t] /\ last'[t] = last[t]
    BY <2>3 DEF Sorts
  <2> QED
    BY <2>2, <2>3, <2>4, Moved
<1>7. ASSUME NEW s \in Jobs, Elapse(s) PROVE Alone'
  BY <1>7 DEF Elapse, chats, tick, host, Sorts, Known, Held, Alone, Live, Dispatching, Open,
      Finished, Reads
<1>8. ASSUME NEW s \in Jobs, Look(s) PROVE Alone'
  BY <1>8 DEF Look, chats, rows, host, ghost, Sorts, Known, Held, Alone, Live, Dispatching,
      Open, Finished, Reads
<1>9. ASSUME NEW s \in Jobs, Settle(s) PROVE Alone'
  <2>1. /\ holder = s /\ seen # None /\ holder' = None /\ seen' = None
        /\ UNCHANGED <<status, active, stop, last, admitted, ticking, faults, elapsed, madeFor,
                      succeeded, revived, cleared>>
        /\ Keeps(s) \/ Returns(s) \/ GivesUp(s)
    BY <1>9, SettleEffect DEF chats, host, ghost
  <2>2. CASE Keeps(s)
    BY <2>1, <2>2 DEF Keeps, Sorts, Known, Held, Alone, Live
  <2>3. CASE Returns(s)
    <3>1. state[s] = "Running" /\ last[s] \in Pool
      BY <2>1, RunOf DEF Held
    <3>2. last[s] \notin active \ revived
      BY <2>1, <2>3 DEF Returns, Held
    <3>3. faults = 0 => \A c \in Pool : madeFor[c] = s => ~Live(c)
      BY <3>1, <3>2 DEF Alone, Live
    <3>4. /\ state'[s] # "Dispatching"
          /\ \A t \in Jobs : t # s => state'[t] = state[t] /\ last'[t] = last[t]
      BY <2>1, <2>3 DEF Returns, Sorts
    <3> QED
      BY <2>1, <3>3, <3>4, Moved
  <2>4. CASE GivesUp(s)
    <3>1. state[s] = "Running" /\ last[s] \in Pool
      BY <2>1, RunOf DEF Held
    <3>2. last[s] \notin active \ revived
      BY <2>1, <2>4 DEF GivesUp, Held
    <3>3. faults = 0 => \A c \in Pool : madeFor[c] = s => ~Live(c)
      BY <3>1, <3>2 DEF Alone, Live
    <3>4. /\ state'[s] # "Dispatching"
          /\ \A t \in Jobs : t # s => state'[t] = state[t] /\ last'[t] = last[t]
      BY <2>1, <2>4 DEF GivesUp, Sorts
    <3> QED
      BY <2>1, <3>3, <3>4, Moved
  <2> QED
    BY <2>1, <2>2, <2>3, <2>4
<1>10. ASSUME NEW s \in Jobs, Claim(s) PROVE Alone'
  <2>1. /\ holder = None /\ holder' = s /\ state[s] = "Waiting"
        /\ state' = [state EXCEPT ![s] = "Dispatching"] /\ last' = [last EXCEPT ![s] = None]
        /\ UNCHANGED <<active, faults, madeFor, revived>>
    BY <1>10 DEF Claim, SetState, Open, chats, host, ghost
  <2>2. faults = 0 => \A c \in Pool : madeFor[c] = s => ~Live(c)
    BY <2>1 DEF Alone
  <2>3. \A t \in Jobs : t # s => state'[t] = state[t] /\ last'[t] = last[t]
    BY <2>1 DEF Sorts
  <2> QED
    BY <2>1, <2>2, <2>3, Moved
<1>11. ASSUME NEW s \in Jobs, Admit(s) PROVE Alone'
  <2>1. PICK c \in Pool :
           /\ status[c] = "absent" /\ c \notin active /\ madeFor[c] = None
           /\ holder = s /\ state[s] = "Dispatching" /\ admitted = None /\ admitted' = c
           /\ status' = [status EXCEPT ![c] = "working"] /\ active' = active \cup {c}
           /\ madeFor' = [madeFor EXCEPT ![c] = s]
           /\ UNCHANGED <<stop, state, enabled, last, due, holder, seen, ticking, faults,
                         elapsed, succeeded, revived, cleared>>
    BY <1>11, AdmitEffect DEF rows, host
  <2>2. faults = 0 => \A d \in Pool : madeFor[d] = s => ~Live(d)
    BY <2>1 DEF Alone
  <2>3. madeFor'[c] = s /\ \A d \in Pool : d # c => madeFor'[d] = madeFor[d]
    BY <2>1 DEF Sorts
  <2>4. \A d \in Pool : d # c => (Live(d)' <=> Live(d))
    BY <2>1 DEF Live
  <2>5. s # None
    OBVIOUS
  <2>6. ASSUME faults = 0, NEW d \in Pool, d # c, madeFor[d] # None, Live(d)
        PROVE  madeFor[d] # s /\ state[madeFor[d]] # "Dispatching"
    BY <2>1, <2>2, <2>6 DEF Alone
  <2> QED
    BY <2>1, <2>2, <2>3, <2>4, <2>5, <2>6 DEF Alone
<1>12. ASSUME NEW s \in Jobs, Refused(s) PROVE Alone'
  <2>1. /\ holder = s /\ state[s] = "Dispatching" /\ admitted = None
        /\ state' = [state EXCEPT ![s] = "Needs attention"]
        /\ UNCHANGED <<last, active, faults, madeFor, revived>>
    BY <1>12 DEF Refused, Dispatching, SetState, chats, host, ghost
  <2>2. faults = 0 => \A c \in Pool : madeFor[c] = s => ~Live(c)
    BY <2>1 DEF Alone
  <2>3. state'[s] = "Needs attention" /\ \A t \in Jobs : t # s => state'[t] = state[t]
    BY <2>1 DEF Sorts
  <2> QED
    BY <2>1, <2>2, <2>3, Moved
<1>13. ASSUME NEW s \in Jobs, Bind(s) PROVE Alone'
  <2>1. /\ holder = s /\ state[s] = "Dispatching"
        /\ state' = [state EXCEPT ![s] = "Running"] /\ last' = [last EXCEPT ![s] = admitted]
        /\ UNCHANGED <<active, faults, madeFor, revived>>
    BY <1>13 DEF Bind, Dispatching, SetState, chats, host, ghost
  <2>2. faults = 0 => \A c \in Pool : madeFor[c] = s /\ Live(c) => c = admitted
    BY <2>1 DEF Alone
  <2>3. /\ state'[s] = "Running" /\ last'[s] = admitted
        /\ \A t \in Jobs : t # s => state'[t] = state[t] /\ last'[t] = last[t]
    BY <2>1 DEF Sorts
  <2> QED
    BY <2>1, <2>2, <2>3, Moved
<1>14. ASSUME NEW c \in Pool, NEW outcome \in Endings, RunEnd(c, outcome) PROVE Alone'
  BY <1>14 DEF RunEnd, End, rows, tick, host, Sorts, Known, Held, Alone, Live, Dispatching,
      Open, Finished, Reads
<1>15. ASSUME NEW c \in Pool, UserStop(c) PROVE Alone'
  BY <1>15 DEF UserStop, Stop, rows, tick, host, ghost, Sorts, Known, Held, Alone, Live,
      Dispatching, Open, Finished, Reads
<1>16. ASSUME NEW c \in Pool, UserDelete(c) PROVE Alone'
  BY <1>16 DEF UserDelete, Delete, rows, tick, host, ghost, Sorts, Known, Held, Alone, Live,
      Dispatching, Open, Finished, Reads
<1>17. ASSUME NEW c \in Pool, UserSend(c) PROVE Alone'
  <2>1. /\ status[c] # "absent" /\ c \notin active /\ holder = None
        /\ status' = [status EXCEPT ![c] = "working"] /\ active' = active \cup {c}
        /\ revived' = revived \cup {c}
        /\ UNCHANGED <<stop, state, enabled, last, due, holder, admitted, seen, ticking, faults,
                      elapsed, madeFor, succeeded, cleared>>
    BY <1>17, SendEffect DEF rows, tick, host, Open
  <2> QED
    BY <2>1 DEF Sorts, Alone, Live
<1>18. CASE UNCHANGED vars
  BY <1>18 DEF vars, chats, rows, tick, host, ghost, Sorts, Known, Held, Alone, Live,
      Dispatching, Open, Finished, Reads
<1> QED
  BY <1>1, <1>2, <1>3, <1>4, <1>5, <1>6, <1>7, <1>8, <1>9,
     <1>10, <1>11, <1>12, <1>13, <1>14, <1>15, <1>16, <1>17, <1>18 DEF Next

-----------------------------------------------------------------------------
(* The records of every schedule lead to the runs that were made for it.   *)
THEOREM TypeCorrect == Spec => []TypeOK
<1>1. IInv /\ [Next]_vars => IInv'
  BY SortsStep, NumbersStep, KnownStep, HeldStep, CountedStep, ClearedStep, AloneStep DEF IInv
<1>2. IInv => TypeOK
  <2> SUFFICES ASSUME IInv PROVE TypeOK
    OBVIOUS
  <2>1. faults \in 0 .. MaxFaults /\ elapsed \in [Jobs -> 0 .. MaxOccurrences]
    BY ScheduleAssumption DEF IInv, Numbers
  <2>2. ChatsOK
    BY DEF IInv, Sorts, ChatsOK
  <2> QED
    BY <2>1, <2>2 DEF IInv, Sorts, TypeOK
<1> QED
  BY IInvInit, <1>1, <1>2, PTL DEF Spec

(* For any number of schedules, intervals, restarts and scheduler errors:  *)
(* no occurrence is replayed, no run that failed is followed by another    *)
(* before the user clears it, and until the first fault none overlap.      *)
THEOREM RunsAreAccounted == Spec => []RunsAccounted
<1>1. IInv /\ [Next]_vars => IInv'
  BY SortsStep, NumbersStep, KnownStep, HeldStep, CountedStep, ClearedStep, AloneStep DEF IInv
<1>2. IInv => RunsAccounted
  <2> SUFFICES ASSUME IInv PROVE RunsAccounted
    OBVIOUS
  <2>1. NeverReplayed
    BY DEF IInv, Counted, NeverReplayed
  <2>2. FailurePauses
    <3> SUFFICES ASSUME NEW s \in enabled, state[s] = "Waiting", NEW c \in Pool, madeFor[c] = s
                 PROVE  c \in succeeded \cup cleared
      BY DEF FailurePauses, Runs
    <3>1. s # None
      BY ScheduleAssumption DEF IInv, Sorts
    <3> QED
      BY <3>1 DEF IInv, Cleared
  <2>3. ASSUME faults = 0, NEW s \in Jobs
        PROVE  Cardinality((Runs(s) \cap active) \ revived) <= 1
    <3> DEFINE R == (Runs(s) \cap active) \ revived
    <3>1. CASE R = {}
      BY <3>1, FS_EmptySet
    <3>2. ASSUME NEW c \in R PROVE Cardinality(R) <= 1
      <4>1. c \in Pool /\ madeFor[c] = s /\ Live(c) /\ s # None
        BY <3>2, ScheduleAssumption DEF Live, Runs
      <4>2. \A d \in R : d \in Pool /\ madeFor[d] = s /\ Live(d)
        BY DEF Live, Runs
      <4>3. \A d \in R : d = c
        BY <2>3, <4>1, <4>2 DEF IInv, Alone
      <4>4. R = {c}
        BY <3>2, <4>3
      <4> QED
        BY <4>4, FS_Singleton
    <3> QED
      BY <3>1, <3>2
  <2> QED
    BY <2>1, <2>2, <2>3 DEF RunsAccounted, NoOverlapBeforeFaults, NoOverlap
<1> QED
  BY IInvInit, <1>1, <1>2, PTL DEF Spec
=============================================================================
