------------------------- MODULE ReplicationProofs -------------------------
(***************************************************************************)
(* What holds of Replication for every set of clients and every bound.     *)
(***************************************************************************)
EXTENDS Replication, TLAPS

(* No step takes a number, set or function out of its type. *)
LEMMA DataPreserved == FlagsOK /\ DataOK /\ [Next]_vars => DataOK'
<1> SUFFICES ASSUME FlagsOK, DataOK, [Next]_vars PROVE DataOK'
  OBVIOUS
<1> USE ReplicationAssumption DEF ReplicationAssumption, Loops, flagVars, loopVars,
          pollVars, stopVars, pushVars, dbVars, seenVars, faultVars, DataOK
<1>1. ASSUME Start PROVE DataOK'
  BY <1>1 DEF Start
<1>2. ASSUME Stop PROVE DataOK'
  BY <1>2 DEF Stop, ending
<1>3. ASSUME StopEnds PROVE DataOK'
  BY <1>3 DEF StopEnds
<1>4. ASSUME NEW l \in Loops, NEW c \in Conns, Connected(l, c) PROVE DataOK'
  BY <1>4 DEF Connected
<1>5. ASSUME NEW l \in Loops, ConnectFails(l) PROVE DataOK'
  BY <1>5 DEF ConnectFails, retries, loopThrows, spendFault
<1>6. ASSUME NEW l \in Loops, SleepEnds(l) PROVE DataOK'
  BY <1>6 DEF SleepEnds, loopThrows
<1>7. ASSUME NEW l \in Loops, SlotChecked(l) PROVE DataOK'
  BY <1>7 DEF SlotChecked, loopSettles, pollBegins, canQuery, attemptFails, ending
<1>8. ASSUME NEW l \in Loops, SlotCreated(l) PROVE DataOK'
  BY <1>8 DEF SlotCreated, loopSettles, pollBegins, canQuery, attemptFails, ending
<1>9. ASSUME NEW l \in Loops, SlotQueryTerminated(l) PROVE DataOK'
  BY <1>9 DEF SlotQueryTerminated, attemptFails, ending, spendFault
<1>10. ASSUME NEW l \in Loops, AttemptEnds(l) PROVE DataOK'
  BY <1>10 DEF AttemptEnds, retries, loopThrows
<1>11. ASSUME DeadClientEnded PROVE DataOK'
  BY <1>11 DEF DeadClientEnded
<1>12. ASSUME NEW c \in Conns, ConnectionBreaks(c) PROVE DataOK'
  BY <1>12 DEF ConnectionBreaks, connectionLost, ending, pollEnds, spendFault
<1>13. ASSUME NEW c \in Conns, ConnectionEnds(c) PROVE DataOK'
  BY <1>13 DEF ConnectionEnds, ending, pollEnds
<1>14. ASSUME TimerTicks PROVE DataOK'
  BY <1>14 DEF TimerTicks, canQuery
<1>15. ASSUME LockAnswered PROVE DataOK'
  <2>1. CASE pushing
    BY <1>15, <2>1 DEF LockAnswered, pollEnds
  <2>2. CASE ~pushing
    <3>1. announced' \in 0 .. MaxPushes
      BY <1>15, <2>2 DEF LockAnswered, pushesEnded
    <3>2. poll' \in {"idle", "reading"} /\ pollOn' \in Conns \cup {NoConn}
      BY <1>15, <2>2 DEF LockAnswered, canQuery
    <3> QED
      BY <1>15, <2>2, <3>1, <3>2 DEF LockAnswered
  <2> QED
    BY <2>1, <2>2
<1>16. ASSUME SlotRead PROVE DataOK'
  BY <1>16 DEF SlotRead
<1>17. ASSUME RowsArrive PROVE DataOK'
  BY <1>17 DEF RowsArrive, pollEnds
<1>18. ASSUME PollTerminated PROVE DataOK'
  BY <1>18 DEF PollTerminated, connectionLost, ending, pollEnds, spendFault
<1>19. ASSUME PushStarts PROVE DataOK'
  BY <1>19 DEF PushStarts
<1>20. ASSUME PushEnds PROVE DataOK'
  BY <1>20 DEF PushEnds
<1>21. ASSUME RowCommits PROVE DataOK'
  BY <1>21 DEF RowCommits, pushesEnded
<1>22. CASE UNCHANGED vars
  BY <1>22 DEF vars
<1> QED
  BY <1>1, <1>2, <1>3, <1>4, <1>5, <1>6, <1>7, <1>8, <1>9, <1>10, <1>11, <1>12, <1>13,
          <1>14, <1>15, <1>16, <1>17, <1>18, <1>19, <1>20, <1>21, <1>22 DEF Next,
          Listener

(* Nor a flag. *)
LEMMA FlagsPreserved == FlagsOK /\ [Next]_vars => FlagsOK'
<1> SUFFICES ASSUME FlagsOK, [Next]_vars PROVE FlagsOK'
  OBVIOUS
<1> USE DEF FlagsOK, flagVars, loopVars, pollVars, stopVars, pushVars, dbVars, seenVars, faultVars
<1>1. ASSUME Start PROVE FlagsOK'
  BY <1>1, Zenon DEF Start
<1>2. ASSUME Stop PROVE FlagsOK'
  BY <1>2, Zenon DEF Stop, ending
<1>3. ASSUME StopEnds PROVE FlagsOK'
  BY <1>3, Zenon DEF StopEnds
<1>4. ASSUME NEW l \in Loops, NEW c \in Conns, Connected(l, c) PROVE FlagsOK'
  BY <1>4, Zenon DEF Connected
<1>5. ASSUME NEW l \in Loops, ConnectFails(l) PROVE FlagsOK'
  BY <1>5, Zenon DEF ConnectFails, retries, loopThrows, spendFault
<1>6. ASSUME NEW l \in Loops, SleepEnds(l) PROVE FlagsOK'
  BY <1>6, Zenon DEF SleepEnds, loopThrows
<1>7. ASSUME NEW l \in Loops, SlotChecked(l) PROVE FlagsOK'
  BY <1>7, Zenon DEF SlotChecked, loopSettles, pollBegins, canQuery, attemptFails, ending
<1>8. ASSUME NEW l \in Loops, SlotCreated(l) PROVE FlagsOK'
  BY <1>8, Zenon DEF SlotCreated, loopSettles, pollBegins, canQuery, attemptFails, ending
<1>9. ASSUME NEW l \in Loops, SlotQueryTerminated(l) PROVE FlagsOK'
  BY <1>9, Zenon DEF SlotQueryTerminated, attemptFails, ending, spendFault
<1>10. ASSUME NEW l \in Loops, AttemptEnds(l) PROVE FlagsOK'
  BY <1>10, Zenon DEF AttemptEnds, retries, loopThrows
<1>11. ASSUME DeadClientEnded PROVE FlagsOK'
  BY <1>11, Zenon DEF DeadClientEnded
<1>12. ASSUME NEW c \in Conns, ConnectionBreaks(c) PROVE FlagsOK'
  BY <1>12, Zenon DEF ConnectionBreaks, connectionLost, ending, pollEnds, spendFault
<1>13. ASSUME NEW c \in Conns, ConnectionEnds(c) PROVE FlagsOK'
  BY <1>13, Zenon DEF ConnectionEnds, ending, pollEnds
<1>14. ASSUME TimerTicks PROVE FlagsOK'
  BY <1>14, Zenon DEF TimerTicks, canQuery
<1>15. ASSUME LockAnswered PROVE FlagsOK'
  BY <1>15, Zenon DEF LockAnswered, canQuery, pollEnds, pushesEnded
<1>16. ASSUME SlotRead PROVE FlagsOK'
  BY <1>16, Zenon DEF SlotRead
<1>17. ASSUME RowsArrive PROVE FlagsOK'
  BY <1>17, Zenon DEF RowsArrive, pollEnds
<1>18. ASSUME PollTerminated PROVE FlagsOK'
  BY <1>18, Zenon DEF PollTerminated, connectionLost, ending, pollEnds, spendFault
<1>19. ASSUME PushStarts PROVE FlagsOK'
  BY <1>19, Zenon DEF PushStarts
<1>20. ASSUME PushEnds PROVE FlagsOK'
  BY <1>20, Zenon DEF PushEnds
<1>21. ASSUME RowCommits PROVE FlagsOK'
  BY <1>21, Zenon DEF RowCommits, pushesEnded
<1>22. CASE UNCHANGED vars
  BY <1>22, Zenon DEF vars
<1> QED
  BY <1>1, <1>2, <1>3, <1>4, <1>5, <1>6, <1>7, <1>8, <1>9, <1>10, <1>11, <1>12, <1>13, <1>14, <1>15, <1>16, <1>17, <1>18, <1>19, <1>20, <1>21, <1>22 DEF Next, Listener

(* reconnecting is set for exactly as long as the reconnect loop runs. *)
LEMMA LoopsPreserved == FlagsOK /\ DataOK /\ LoopsOK /\ [Next]_vars => LoopsOK'
<1> SUFFICES ASSUME FlagsOK, DataOK, LoopsOK, [Next]_vars PROVE LoopsOK'
  OBVIOUS
<1> USE ReplicationAssumption DEF ReplicationAssumption, Loops, flagVars, loopVars,
          pollVars, stopVars, pushVars, dbVars, seenVars, faultVars, FlagsOK, DataOK,
          LoopsOK
<1>1. ASSUME Start PROVE LoopsOK'
  BY <1>1 DEF Start
<1>2. ASSUME Stop PROVE LoopsOK'
  BY <1>2 DEF Stop, ending
<1>3. ASSUME StopEnds PROVE LoopsOK'
  BY <1>3 DEF StopEnds
<1>4. ASSUME NEW l \in Loops, NEW c \in Conns, Connected(l, c) PROVE LoopsOK'
  BY <1>4 DEF Connected
<1>5. ASSUME NEW l \in Loops, ConnectFails(l) PROVE LoopsOK'
  BY <1>5 DEF ConnectFails, retries, loopThrows, spendFault
<1>6. ASSUME NEW l \in Loops, SleepEnds(l) PROVE LoopsOK'
  BY <1>6 DEF SleepEnds, loopThrows
<1>7. ASSUME NEW l \in Loops, SlotChecked(l) PROVE LoopsOK'
  BY <1>7 DEF SlotChecked, loopSettles, pollBegins, canQuery, attemptFails, ending
<1>8. ASSUME NEW l \in Loops, SlotCreated(l) PROVE LoopsOK'
  BY <1>8 DEF SlotCreated, loopSettles, pollBegins, canQuery, attemptFails, ending
<1>9. ASSUME NEW l \in Loops, SlotQueryTerminated(l) PROVE LoopsOK'
  BY <1>9 DEF SlotQueryTerminated, attemptFails, ending, spendFault
<1>10. ASSUME NEW l \in Loops, AttemptEnds(l) PROVE LoopsOK'
  BY <1>10 DEF AttemptEnds, retries, loopThrows
<1>11. ASSUME DeadClientEnded PROVE LoopsOK'
  BY <1>11 DEF DeadClientEnded
<1>12. ASSUME NEW c \in Conns, ConnectionBreaks(c) PROVE LoopsOK'
  BY <1>12 DEF ConnectionBreaks, connectionLost, ending, pollEnds, spendFault
<1>13. ASSUME NEW c \in Conns, ConnectionEnds(c) PROVE LoopsOK'
  BY <1>13 DEF ConnectionEnds, ending, pollEnds
<1>14. ASSUME TimerTicks PROVE LoopsOK'
  BY <1>14 DEF TimerTicks, canQuery
<1>15. ASSUME LockAnswered PROVE LoopsOK'
  BY <1>15 DEF LockAnswered, canQuery, pollEnds, pushesEnded
<1>16. ASSUME SlotRead PROVE LoopsOK'
  BY <1>16 DEF SlotRead
<1>17. ASSUME RowsArrive PROVE LoopsOK'
  BY <1>17 DEF RowsArrive, pollEnds
<1>18. ASSUME PollTerminated PROVE LoopsOK'
  BY <1>18 DEF PollTerminated, connectionLost, ending, pollEnds, spendFault
<1>19. ASSUME PushStarts PROVE LoopsOK'
  BY <1>19 DEF PushStarts
<1>20. ASSUME PushEnds PROVE LoopsOK'
  BY <1>20 DEF PushEnds
<1>21. ASSUME RowCommits PROVE LoopsOK'
  BY <1>21 DEF RowCommits, pushesEnded
<1>22. CASE UNCHANGED vars
  BY <1>22 DEF vars
<1> QED
  BY <1>1, <1>2, <1>3, <1>4, <1>5, <1>6, <1>7, <1>8, <1>9, <1>10, <1>11, <1>12, <1>13,
          <1>14, <1>15, <1>16, <1>17, <1>18, <1>19, <1>20, <1>21, <1>22 DEF Next,
          Listener

(* The variables of Replication keep their types, and reconnecting is reset *)
(* whichever way a reconnect ends.                                          *)
THEOREM TypeCorrect == Spec => []TypeOK
<1>1. Init => FlagsOK
  BY DEF Init, FlagsOK
<1>2. Init => DataOK /\ LoopsOK
  BY ReplicationAssumption DEF ReplicationAssumption, Init, DataOK, LoopsOK, Loops
<1>3. TypeOK /\ [Next]_vars => TypeOK'
  BY DataPreserved, FlagsPreserved, LoopsPreserved DEF TypeOK
<1> QED
  BY <1>1, <1>2, <1>3, PTL DEF Spec, TypeOK

-----------------------------------------------------------------------------
(* What a poll has remembered of the lock: a push it saw is either announced *)
(* or still to be, and one still to be announced keeps the slot unread.      *)
RulesInv ==
    /\ heldSeen <= pushNo
    /\ announced <= pushesEnded
    /\ ~sawSchemaPush => announced >= heldSeen
    /\ poll \in {"reading", "answered"} => ~sawSchemaPush
    /\ transit # {} => poll = "answered"

(* The memory of the lock survives every step, reconnects included. *)
LEMMA RulesInvPreserved == TypeOK /\ RulesInv /\ [Next]_vars => RulesInv'
<1> SUFFICES ASSUME TypeOK, RulesInv, [Next]_vars PROVE RulesInv'
  OBVIOUS
<1> USE ReplicationAssumption DEF ReplicationAssumption, Loops, flagVars, loopVars,
          pollVars, stopVars, pushVars, dbVars, seenVars, faultVars, TypeOK, FlagsOK,
          DataOK, RulesInv, pushesEnded
<1>1. ASSUME Start PROVE RulesInv'
  BY <1>1 DEF Start
<1>2. ASSUME Stop PROVE RulesInv'
  BY <1>2 DEF Stop, ending
<1>3. ASSUME StopEnds PROVE RulesInv'
  BY <1>3 DEF StopEnds
<1>4. ASSUME NEW l \in Loops, NEW c \in Conns, Connected(l, c) PROVE RulesInv'
  BY <1>4 DEF Connected
<1>5. ASSUME NEW l \in Loops, ConnectFails(l) PROVE RulesInv'
  BY <1>5 DEF ConnectFails, retries, loopThrows, spendFault
<1>6. ASSUME NEW l \in Loops, SleepEnds(l) PROVE RulesInv'
  BY <1>6 DEF SleepEnds, loopThrows
<1>7. ASSUME NEW l \in Loops, SlotChecked(l) PROVE RulesInv'
  BY <1>7 DEF SlotChecked, loopSettles, pollBegins, canQuery, attemptFails, ending
<1>8. ASSUME NEW l \in Loops, SlotCreated(l) PROVE RulesInv'
  BY <1>8 DEF SlotCreated, loopSettles, pollBegins, canQuery, attemptFails, ending
<1>9. ASSUME NEW l \in Loops, SlotQueryTerminated(l) PROVE RulesInv'
  BY <1>9 DEF SlotQueryTerminated, attemptFails, ending, spendFault
<1>10. ASSUME NEW l \in Loops, AttemptEnds(l) PROVE RulesInv'
  BY <1>10 DEF AttemptEnds, retries, loopThrows
<1>11. ASSUME DeadClientEnded PROVE RulesInv'
  BY <1>11 DEF DeadClientEnded
<1>12. ASSUME NEW c \in Conns, ConnectionBreaks(c) PROVE RulesInv'
  BY <1>12 DEF ConnectionBreaks, connectionLost, ending, pollEnds, spendFault
<1>13. ASSUME NEW c \in Conns, ConnectionEnds(c) PROVE RulesInv'
  BY <1>13 DEF ConnectionEnds, ending, pollEnds
<1>14. ASSUME TimerTicks PROVE RulesInv'
  BY <1>14 DEF TimerTicks, canQuery
<1>15. ASSUME LockAnswered PROVE RulesInv'
  BY <1>15 DEF LockAnswered, canQuery, pollEnds, pushesEnded
<1>16. ASSUME SlotRead PROVE RulesInv'
  BY <1>16 DEF SlotRead
<1>17. ASSUME RowsArrive PROVE RulesInv'
  BY <1>17 DEF RowsArrive, pollEnds
<1>18. ASSUME PollTerminated PROVE RulesInv'
  BY <1>18 DEF PollTerminated, connectionLost, ending, pollEnds, spendFault
<1>19. ASSUME PushStarts PROVE RulesInv'
  BY <1>19 DEF PushStarts
<1>20. ASSUME PushEnds PROVE RulesInv'
  BY <1>20 DEF PushEnds
<1>21. ASSUME RowCommits PROVE RulesInv'
  BY <1>21 DEF RowCommits, pushesEnded
<1>22. CASE UNCHANGED vars
  BY <1>22 DEF vars
<1> QED
  BY <1>1, <1>2, <1>3, <1>4, <1>5, <1>6, <1>7, <1>8, <1>9, <1>10, <1>11, <1>12, <1>13,
          <1>14, <1>15, <1>16, <1>17, <1>18, <1>19, <1>20, <1>21, <1>22 DEF Next,
          Listener

(* No row reaches onChange before every push a poll saw has been announced. *)
THEOREM RulesComeFirst == Spec => []RulesBeforeRows
<1>1. Init => RulesInv
  BY DEF Init, RulesInv, pushesEnded
<1>2. TypeOK /\ RulesInv => RulesBeforeRows
  BY DEF TypeOK, DataOK, RulesInv, RulesBeforeRows
<1> QED
  BY TypeCorrect, RulesInvPreserved, <1>1, <1>2, PTL DEF Spec

-----------------------------------------------------------------------------
(* Where a loop is when no connection may be up: it has none of its own yet, *)
(* or no longer, and the one it was to replace is being ended.               *)
Waiting == {"connecting", "retrying", "givingUp", "refused", "sleeping", "disposing", "failed"}

(* Nothing has happened before start(); only its success arms the timer, and *)
(* only the timer and its success poll; a stop() still ending a client is    *)
(* not undone by a start(); and nothing runs without a slot.                 *)
HistoryInv ==
    /\ loop["start"] = "idle" =>
           /\ client = NoConn /\ loop["reconnect"] = "idle"
           /\ \A c \in Conns : conn[c] = "closed"
    /\ loop["reconnect"] # "done"
    /\ stopper = "ending" => stopped /\ loop["start"] # "idle"
    /\ timer => loop["start"] = "done"
    /\ poll # "idle" => loop["start"] = "done"
    /\ running => slotExists

(* One loop at a time: a reconnect begins after start() has succeeded; what  *)
(* is established is this.client, and this.client is established; a loop on  *)
(* its way has left none up; and the query it waits on is its own client's,  *)
(* which this.client is.                                                     *)
AloneInv ==
    /\ loop["start"] # "done" => loop["reconnect"] = "idle"
    /\ \A c \in Conns : conn[c] = "open" <=> c = client
    /\ \A l \in Loops : loop[l] \in Waiting => client = NoConn
    /\ \A l \in Loops : asked[l] # NoConn => asked[l] = client /\ mine[l] = client

LoneInv == HistoryInv /\ (oneLoop => AloneInv)

(* None of that is forgotten. *)
LEMMA HistoryPreserved == TypeOK /\ LoneInv /\ [Next]_vars => HistoryInv'
<1> SUFFICES ASSUME TypeOK, LoneInv, [Next]_vars PROVE HistoryInv'
  OBVIOUS
<1> USE ReplicationAssumption DEF ReplicationAssumption, Loops, flagVars, loopVars, pollVars,
          stopVars, pushVars, dbVars, seenVars, faultVars, TypeOK, FlagsOK, DataOK, LoopsOK,
          LoneInv, HistoryInv
<1>1. ASSUME Start PROVE HistoryInv'
  BY <1>1 DEF Start
<1>2. ASSUME Stop PROVE HistoryInv'
  BY <1>2 DEF Stop, ending
<1>3. ASSUME StopEnds PROVE HistoryInv'
  BY <1>3 DEF StopEnds
<1>4. ASSUME NEW l \in Loops, NEW c \in Conns, Connected(l, c) PROVE HistoryInv'
  BY <1>4 DEF Connected
<1>5. ASSUME NEW l \in Loops, ConnectFails(l) PROVE HistoryInv'
  BY <1>5 DEF ConnectFails, retries, loopThrows, spendFault
<1>6. ASSUME NEW l \in Loops, SleepEnds(l) PROVE HistoryInv'
  BY <1>6 DEF SleepEnds, loopThrows
<1>7. ASSUME NEW l \in Loops, SlotChecked(l) PROVE HistoryInv'
  BY <1>7 DEF SlotChecked, loopSettles, pollBegins, canQuery, attemptFails, ending
<1>8. ASSUME NEW l \in Loops, SlotCreated(l) PROVE HistoryInv'
  BY <1>8 DEF SlotCreated, loopSettles, pollBegins, canQuery, attemptFails, ending
<1>9. ASSUME NEW l \in Loops, SlotQueryTerminated(l) PROVE HistoryInv'
  BY <1>9 DEF SlotQueryTerminated, attemptFails, ending, spendFault
<1>10. ASSUME NEW l \in Loops, AttemptEnds(l) PROVE HistoryInv'
  BY <1>10 DEF AttemptEnds, retries, loopThrows
<1>11. ASSUME DeadClientEnded PROVE HistoryInv'
  BY <1>11 DEF DeadClientEnded
<1>12. ASSUME NEW c \in Conns, ConnectionBreaks(c) PROVE HistoryInv'
  BY <1>12 DEF ConnectionBreaks, connectionLost, ending, pollEnds, spendFault
<1>13. ASSUME NEW c \in Conns, ConnectionEnds(c) PROVE HistoryInv'
  BY <1>13 DEF ConnectionEnds, ending, pollEnds
<1>14. ASSUME TimerTicks PROVE HistoryInv'
  BY <1>14 DEF TimerTicks, canQuery
<1>15. ASSUME LockAnswered PROVE HistoryInv'
  BY <1>15 DEF LockAnswered, canQuery, pollEnds, pushesEnded
<1>16. ASSUME SlotRead PROVE HistoryInv'
  BY <1>16 DEF SlotRead
<1>17. ASSUME RowsArrive PROVE HistoryInv'
  BY <1>17 DEF RowsArrive, pollEnds
<1>18. ASSUME PollTerminated PROVE HistoryInv'
  BY <1>18 DEF PollTerminated, connectionLost, ending, pollEnds, spendFault
<1>19. ASSUME PushStarts PROVE HistoryInv'
  BY <1>19 DEF PushStarts
<1>20. ASSUME PushEnds PROVE HistoryInv'
  BY <1>20 DEF PushEnds
<1>21. ASSUME RowCommits PROVE HistoryInv'
  BY <1>21 DEF RowCommits, pushesEnded
<1>22. CASE UNCHANGED vars
  BY <1>22 DEF vars
<1> QED
  BY <1>1, <1>2, <1>3, <1>4, <1>5, <1>6, <1>7, <1>8, <1>9, <1>10, <1>11, <1>12, <1>13,
     <1>14, <1>15, <1>16, <1>17, <1>18, <1>19, <1>20, <1>21, <1>22 DEF Next, Listener

(* While one loop is at work, it stays alone. *)
LEMMA AlonePreserved == TypeOK /\ LoneInv /\ [Next]_vars => (oneLoop => AloneInv)'
<1> SUFFICES ASSUME TypeOK, LoneInv, [Next]_vars PROVE (oneLoop => AloneInv)'
  OBVIOUS
<1> USE ReplicationAssumption DEF ReplicationAssumption, Loops, flagVars, loopVars, pollVars,
          stopVars, pushVars, dbVars, seenVars, faultVars, TypeOK, FlagsOK, DataOK, LoopsOK,
          LoneInv, HistoryInv, AloneInv, oneLoop, Waiting
<1>1. ASSUME Start PROVE (oneLoop => AloneInv)'
  BY <1>1 DEF Start
<1>2. ASSUME Stop PROVE (oneLoop => AloneInv)'
  BY <1>2 DEF Stop, ending
<1>3. ASSUME StopEnds PROVE (oneLoop => AloneInv)'
  BY <1>3 DEF StopEnds
<1>4. ASSUME NEW l \in Loops, NEW c \in Conns, Connected(l, c) PROVE (oneLoop => AloneInv)'
  BY <1>4 DEF Connected
<1>5. ASSUME NEW l \in Loops, ConnectFails(l) PROVE (oneLoop => AloneInv)'
  BY <1>5 DEF ConnectFails, retries, loopThrows, spendFault
<1>6. ASSUME NEW l \in Loops, SleepEnds(l) PROVE (oneLoop => AloneInv)'
  BY <1>6 DEF SleepEnds, loopThrows
<1>7. ASSUME NEW l \in Loops, SlotChecked(l) PROVE (oneLoop => AloneInv)'
  BY <1>7 DEF SlotChecked, loopSettles, pollBegins, canQuery, attemptFails, ending
<1>8. ASSUME NEW l \in Loops, SlotCreated(l) PROVE (oneLoop => AloneInv)'
  BY <1>8 DEF SlotCreated, loopSettles, pollBegins, canQuery, attemptFails, ending
<1>9. ASSUME NEW l \in Loops, SlotQueryTerminated(l) PROVE (oneLoop => AloneInv)'
  BY <1>9 DEF SlotQueryTerminated, attemptFails, ending, spendFault
<1>10. ASSUME NEW l \in Loops, AttemptEnds(l) PROVE (oneLoop => AloneInv)'
  BY <1>10 DEF AttemptEnds, retries, loopThrows
<1>11. ASSUME DeadClientEnded PROVE (oneLoop => AloneInv)'
  BY <1>11 DEF DeadClientEnded
<1>12. ASSUME NEW c \in Conns, ConnectionBreaks(c) PROVE (oneLoop => AloneInv)'
  BY <1>12 DEF ConnectionBreaks, connectionLost, ending, pollEnds, spendFault
<1>13. ASSUME NEW c \in Conns, ConnectionEnds(c) PROVE (oneLoop => AloneInv)'
  BY <1>13 DEF ConnectionEnds, ending, pollEnds
<1>14. ASSUME TimerTicks PROVE (oneLoop => AloneInv)'
  BY <1>14 DEF TimerTicks, canQuery
<1>15. ASSUME LockAnswered PROVE (oneLoop => AloneInv)'
  BY <1>15 DEF LockAnswered, canQuery, pollEnds, pushesEnded
<1>16. ASSUME SlotRead PROVE (oneLoop => AloneInv)'
  BY <1>16 DEF SlotRead
<1>17. ASSUME RowsArrive PROVE (oneLoop => AloneInv)'
  BY <1>17 DEF RowsArrive, pollEnds
<1>18. ASSUME PollTerminated PROVE (oneLoop => AloneInv)'
  BY <1>18 DEF PollTerminated, connectionLost, ending, pollEnds, spendFault
<1>19. ASSUME PushStarts PROVE (oneLoop => AloneInv)'
  BY <1>19 DEF PushStarts
<1>20. ASSUME PushEnds PROVE (oneLoop => AloneInv)'
  BY <1>20 DEF PushEnds
<1>21. ASSUME RowCommits PROVE (oneLoop => AloneInv)'
  BY <1>21 DEF RowCommits, pushesEnded
<1>22. CASE UNCHANGED vars
  BY <1>22 DEF vars
<1> QED
  BY <1>1, <1>2, <1>3, <1>4, <1>5, <1>6, <1>7, <1>8, <1>9, <1>10, <1>11, <1>12, <1>13,
     <1>14, <1>15, <1>16, <1>17, <1>18, <1>19, <1>20, <1>21, <1>22 DEF Next, Listener

(* Both parts hold of every behaviour. *)
LEMMA LoneInvHolds == Spec => []LoneInv
<1>1. Init => LoneInv
  BY ReplicationAssumption
     DEF ReplicationAssumption, Init, LoneInv, HistoryInv, AloneInv, oneLoop, Waiting, Loops
<1>2. TypeOK /\ LoneInv /\ [Next]_vars => LoneInv'
  BY HistoryPreserved, AlonePreserved DEF LoneInv
<1> QED
  BY TypeCorrect, <1>1, <1>2, PTL DEF Spec

(* A listener with one loop at a time never leaves an established connection *)
(* behind: connect(), a failed attempt, a lost connection and the disposal   *)
(* of a dead client hand this.client over with nothing else still open.      *)
THEOREM OneConnectionIsKept == Spec => []OneConnection
<1>1. LoneInv => OneConnection
  BY DEF LoneInv, AloneInv, OneConnection
<1> QED
  BY LoneInvHolds, <1>1, PTL

(* When /health/ready calls such a listener ready, it is: the connection it  *)
(* holds is established and the slot it reads exists.                        *)
THEOREM ReadyMeansReady == Spec => []ReadyIsReal
<1>1. TypeOK /\ LoneInv => ReadyIsReal
  BY DEF TypeOK, DataOK, LoneInv, HistoryInv, AloneInv, ReadyIsReal, isConnected
<1> QED
  BY TypeCorrect, LoneInvHolds, <1>1, PTL
=============================================================================
