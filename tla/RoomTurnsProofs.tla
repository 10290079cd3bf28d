-------------------------- MODULE RoomTurnsProofs --------------------------
(* Proofs about RoomTurns, for every table of at most four seats, with any  *)
(* number of bots, with and without votes and a time limit.                 *)
EXTENDS RoomTurns, SeatOrderProofs

Tasks == [seat: Bots, fresh: BOOLEAN, stage: {"waiting", "searching"}] \cup {NoTask}

(* The four invariants hold together: the owner of a kicked player's room   *)
(* is found because "here" means connected, and the timers fit because a    *)
(* task is only ever replaced by one for the phase that begins.             *)
RoomInv == RoomTypeOK /\ TimersFit /\ BotWillMove /\ RoomHasOwner

(* schedule_bot_turn leaves a task for the bot that has to move, if one has *)
(* to, and otherwise one that is no more than it was.                       *)
LEMMA ScheduleBotFits ==
  ASSUME NEW task \in Tasks, NEW moved \in BOOLEAN, ScheduleBot(task, moved)
  PROVE  bot' \in Tasks /\ BotWillMove'
<1>1. CASE BotsTurn'
  <2>1. bot' = [seat |-> current', fresh |-> TRUE, stage |-> "waiting"]
    BY <1>1 DEF ScheduleBot
  <2>2. current' \in Bots
    BY <1>1 DEF BotsTurn
  <2> QED
    BY <2>1, <2>2 DEF Tasks, BotWillMove
<1>2. CASE ~BotsTurn'
  <2>1. bot' = [task EXCEPT !.fresh = @ /\ ~moved]
    BY <1>2 DEF ScheduleBot
  <2>2. bot' \in Tasks
    <3>1. CASE task = NoTask
      <4>1. bot' = [NoTask EXCEPT !.fresh = FALSE]
        BY <2>1, <3>1 DEF NoTask
      <4>2. bot' = NoTask
        BY <4>1 DEF NoTask
      <4> QED
        BY <4>2 DEF Tasks
    <3>2. CASE task # NoTask
      <4>1. task \in [seat: Bots, fresh: BOOLEAN, stage: {"waiting", "searching"}]
        BY <3>2 DEF Tasks
      <4>2. bot' = [seat |-> task.seat, fresh |-> (task.fresh /\ ~moved), stage |-> task.stage]
        BY <2>1, <4>1
      <4> QED
        BY <4>1, <4>2 DEF Tasks
    <3> QED
      BY <3>1, <3>2
  <2> QED
    BY <1>2, <2>2 DEF BotWillMove
<1> QED
  BY <1>1, <1>2

(* The end of a move, whoever or whatever made it, leaves the room in order.*)
LEMMA MoveEndsKeeps ==
  ASSUME RoomInv, NEW task \in Tasks, MoveEnds(task), UNCHANGED <<seat, owner>>
  PROVE  RoomInv'
<1>1. phase # "over" /\ UNCHANGED <<absent, players, present>> /\ phase' \in {"turn", "over"}
  BY DEF MoveEnds, NextTurn, Finish, RoomInv, RoomTypeOK
<1>2. Landing(current, players, present, absent) \in players
  BY LandingIsPlayer, NumSeatsAssumption DEF RoomInv, RoomTypeOK, Seats
<1>3. current' \in players
  BY <1>2 DEF MoveEnds, NextTurn, Finish, RoomInv, RoomTypeOK
<1>4. bot' \in Tasks /\ BotWillMove'
  BY ScheduleBotFits DEF MoveEnds
<1>5. /\ turnTimer' = IF Limited /\ phase' = "turn" THEN "on" ELSE "off"
      /\ voteTimer' = "off" /\ voted' = {}
  BY DEF MoveEnds, RestartTurnTimer
<1>6. TimersFit'
  BY <1>1, <1>5, RoomAssumption DEF TimersFit
<1>7. RoomTypeOK' /\ RoomHasOwner'
  BY <1>1, <1>3, <1>4, <1>5 DEF RoomInv, RoomTypeOK, RoomHasOwner, Humans, Tasks
<1> QED
  BY <1>4, <1>6, <1>7 DEF RoomInv

(* A placement that goes to the vote leaves the room in order. *)
LEMMA VoteOpensKeeps ==
  ASSUME RoomInv, NEW task \in Tasks, VoteOpens(task), UNCHANGED <<seat, owner>>
  PROVE  RoomInv'
<1>1. phase' = "vote" /\ phase = "turn" /\ UNCHANGED <<absent, players, present, current>>
  BY DEF VoteOpens, OpenVote
<1>2. bot' \in Tasks /\ BotWillMove'
  BY ScheduleBotFits DEF VoteOpens
<1>3. turnTimer' = "off" /\ voteTimer' = "on" /\ voted' = {}
  BY DEF VoteOpens
<1> QED
  BY <1>1, <1>2, <1>3 DEF RoomInv, RoomTypeOK, TimersFit, RoomHasOwner, Humans, Tasks

(* Whoever decides a vote, the room is in order afterwards. *)
LEMMA VoteEndsKeeps ==
  ASSUME RoomInv, VoteEnds, UNCHANGED <<seat, owner>>
  PROVE  RoomInv'
<1>1. bot \in Tasks
  BY DEF RoomInv, RoomTypeOK, Tasks
<1>2. CASE MoveEnds(bot)
  BY <1>1, <1>2, MoveEndsKeeps
<1>3. CASE /\ PlacerAgain /\ RestartTurnTimer
           /\ voteTimer' = "off" /\ voted' = {}
           /\ ScheduleBot(bot, FALSE)
  <2>1. phase' = "turn" /\ phase = "vote" /\ UNCHANGED <<absent, players, present, current>>
    BY <1>3 DEF PlacerAgain
  <2>2. bot' \in Tasks /\ BotWillMove'
    BY <1>1, <1>3, ScheduleBotFits
  <2>3. turnTimer' = IF Limited THEN "on" ELSE "off"
    BY <1>3, <2>1 DEF RestartTurnTimer
  <2> QED
    BY <1>3, <2>1, <2>2, <2>3, RoomAssumption
    DEF RoomInv, RoomTypeOK, TimersFit, RoomHasOwner, Humans, Tasks
<1> QED
  BY <1>2, <1>3 DEF VoteEnds

(* Closing a room stops its timers and its bot's task. *)
LEMMA RoomClosesKeeps ==
  ASSUME RoomInv, NEW here \in SUBSET players, Bots \subseteq here, RoomCloses(here),
         seat' \in [Seats -> {"here", "grace", "left", "gone"}], owner' = owner
  PROVE  RoomInv'
<1>1. bot' \in Tasks /\ ~BotsTurn'
  BY DEF RoomCloses, Tasks, BotsTurn
<1> QED
  BY <1>1 DEF RoomCloses, RoomInv, RoomTypeOK, TimersFit, BotWillMove, RoomHasOwner, Humans, Tasks

(* A player's going for good moves the turn off him, and its timer and the  *)
(* bot's task with it; given an owner, the room is in order.                *)
LEMMA PlaysOnKeeps ==
  ASSUME RoomInv, NEW s \in Seats, PlaysOnWithout(s),
         NEW how \in {"left", "gone"}, seat' = [seat EXCEPT ![s] = how],
         owner' \in Humans, seat'[owner'] \in {"here", "grace"}
  PROVE  RoomInv'
<1>1. /\ phase \in {"turn", "vote"} /\ phase' = phase /\ s \in players \ Bots
      /\ present' = present \ {s}
      /\ UNCHANGED <<absent, players, voteTimer, voted>>
  BY DEF PlaysOnWithout, Quit, RoomInv, RoomTypeOK
<1>2. bot \in Tasks /\ absent = FALSE /\ players = Seats
  BY DEF RoomInv, RoomTypeOK, Tasks
<1>3. /\ seat' \in [Seats -> {"here", "grace", "left", "gone"}]
      /\ present' = {t \in Seats : seat'[t] = "here"}
      /\ Bots \subseteq present'
  BY <1>1, TurnBotsAssumption DEF RoomInv, RoomTypeOK
<1>4. CASE phase = "turn" /\ current \notin present' /\ present' # {}
  <2>1. current' = Landing(current, players, present', FALSE)
    BY <1>2, <1>4 DEF PlaysOnWithout, Quit
  <2>2. current' \in present'
    <3>1. current \in Seats /\ players \in SUBSET Seats /\ present' \in SUBSET players
      BY <1>2, <1>3 DEF RoomInv, RoomTypeOK
    <3>2. present' # {}
      BY <1>4
    <3> QED
      BY <2>1, <3>1, <3>2, LandingIsPresent
  <2>3. RestartTurnTimer /\ ScheduleBot(bot, TRUE)
    BY <1>4 DEF PlaysOnWithout
  <2>4. bot' \in Tasks /\ BotWillMove'
    BY <1>2, <2>3, ScheduleBotFits
  <2>5. turnTimer' = IF Limited THEN "on" ELSE "off"
    BY <1>1, <1>4, <2>3 DEF RestartTurnTimer
  <2> QED
    BY <1>1, <1>2, <1>3, <1>4, <2>2, <2>4, <2>5, RoomAssumption
    DEF RoomInv, RoomTypeOK, TimersFit, RoomHasOwner, Humans, Tasks
<1>5. CASE ~ (phase = "turn" /\ current \notin present' /\ present' # {})
  <2>1. current' = current /\ turnTimer' = turnTimer /\ bot' = bot
    BY <1>5 DEF PlaysOnWithout, Quit
  <2>2. BotsTurn' => BotsTurn
    BY <1>1, <2>1 DEF BotsTurn
  <2> QED
    BY <1>1, <1>2, <1>3, <2>1, <2>2
    DEF RoomInv, RoomTypeOK, TimersFit, BotWillMove, RoomHasOwner, Humans, Tasks
<1> QED
  BY <1>4, <1>5

-----------------------------------------------------------------------------

(* A room is in order when its game starts, whoever is there then. *)
LEMMA RoomInit == Init => RoomInv
<1> SUFFICES ASSUME Init PROVE RoomInv
  OBVIOUS
<1>1. bot \in Tasks /\ BotWillMove
  BY DEF Init, Tasks, BotsTurn, BotWillMove
<1> QED
  BY <1>1, RoomAssumption, TurnBotsAssumption
  DEF Init, RoomInv, RoomTypeOK, TimersFit, RoomHasOwner, Humans, Tasks

(* No handler, timer, bot or admin action leaves a room in disorder. *)
LEMMA RoomStep == RoomInv /\ [Next]_vars => RoomInv'
<1> SUFFICES ASSUME RoomInv, [Next]_vars PROVE RoomInv'
  OBVIOUS
<1>0. bot \in Tasks /\ NoTask \in Tasks
  BY DEF RoomInv, RoomTypeOK, Tasks
<1>1. CASE HumanMove
  BY <1>0, <1>1, MoveEndsKeeps, VoteOpensKeeps DEF HumanMove, Move
<1>2. ASSUME NEW v \in Seats, Vote(v) PROVE RoomInv'
  <2>1. CASE VoteEnds
    BY <1>2, <2>1, VoteEndsKeeps DEF Vote
  <2>2. CASE /\ voted' = voted \cup {v}
             /\ UNCHANGED <<turnVars, turnTimer, voteTimer, bot>>
    BY <1>2, <2>2
    DEF Vote, turnVars, RoomInv, RoomTypeOK, TimersFit, BotWillMove, BotsTurn, RoomHasOwner, Humans
  <2> QED
    BY <1>2, <2>1, <2>2 DEF Vote
<1>3. CASE WithdrawWords
  <2>1. /\ phase = "vote" /\ phase' = "turn" /\ current \notin Bots
        /\ UNCHANGED <<absent, players, present, current, bot, voted, seat, owner>>
    BY <1>3 DEF WithdrawWords, PlacerAgain
  <2>2. turnTimer' = (IF Limited THEN "on" ELSE "off") /\ voteTimer' = "off"
    BY <1>3, <2>1 DEF WithdrawWords, RestartTurnTimer
  <2> QED
    BY <2>1, <2>2, RoomAssumption
    DEF RoomInv, RoomTypeOK, TimersFit, BotWillMove, BotsTurn, RoomHasOwner, Humans
<1>4. CASE TurnTimeout \/ AdminSkip
  BY <1>0, <1>4, MoveEndsKeeps DEF TurnTimeout, AdminSkip
<1>5. CASE ChallengeTimeout \/ ResolveVote
  BY <1>5, VoteEndsKeeps DEF ChallengeTimeout, ResolveVote
<1>6. CASE BotWakes
  <2>1. bot' \in Tasks
    BY <1>0, <1>6 DEF BotWakes, Tasks, NoTask
  <2>2. BotsTurn' <=> BotsTurn
    BY <1>6 DEF BotWakes, turnVars, BotsTurn
  <2>3. BotWillMove'
    BY <1>0, <1>6, <2>2 DEF BotWakes, turnVars, RoomInv, BotWillMove, Tasks, NoTask
  <2> QED
    BY <1>6, <2>1, <2>3
    DEF BotWakes, turnVars, RoomInv, RoomTypeOK, TimersFit, RoomHasOwner, Humans, Tasks
<1>7. CASE BotMove
  <2>1. CASE Move(NoTask)
    BY <1>0, <1>7, <2>1, MoveEndsKeeps, VoteOpensKeeps DEF BotMove, Move
  <2>2. CASE /\ ~ (phase = "turn" /\ current = bot.seat /\ bot.fresh)
             /\ bot' = NoTask
             /\ UNCHANGED <<turnVars, turnTimer, voteTimer, voted>>
    <3>1. ~BotsTurn
      BY <2>2 DEF RoomInv, BotWillMove, BotsTurn
    <3> QED
      BY <1>7, <2>2, <3>1
      DEF BotMove, turnVars, RoomInv, RoomTypeOK, TimersFit, BotWillMove, BotsTurn, RoomHasOwner, Humans
  <2> QED
    BY <1>7, <2>1, <2>2 DEF BotMove
<1>8. CASE Pause \/ Resume
  BY <1>8
  DEF Pause, Resume, turnVars, RoomInv, RoomTypeOK, TimersFit, BotWillMove, BotsTurn, RoomHasOwner, Humans
<1>9. CASE RescheduleBot
  <2>1. bot' \in Tasks /\ BotWillMove'
    BY <1>0, <1>9, ScheduleBotFits DEF RescheduleBot
  <2> QED
    BY <1>9, <2>1
    DEF RescheduleBot, turnVars, RoomInv, RoomTypeOK, TimersFit, RoomHasOwner, Humans, Tasks
<1>10. CASE EndRoom
  <2>1. present \in SUBSET players /\ Bots \subseteq present
    BY DEF RoomInv, RoomTypeOK
  <2> QED
    BY <1>10, <2>1, RoomClosesKeeps DEF EndRoom, RoomInv, RoomTypeOK
<1>11. ASSUME NEW s \in Seats, Disconnect(s) PROVE RoomInv'
  <2>1. /\ phase # "over" /\ s \in present \ Bots /\ present' = present \ {s}
        /\ seat' = [seat EXCEPT ![s] = "grace"]
        /\ UNCHANGED <<phase, absent, players, current, turnTimer, voteTimer, bot, voted, owner>>
    BY <1>11 DEF Disconnect, Drop
  <2>2. BotsTurn' => BotsTurn
    BY <2>1 DEF BotsTurn
  <2> QED
    BY <2>1, <2>2 DEF RoomInv, RoomTypeOK, TimersFit, BotWillMove, RoomHasOwner, Humans
<1>12. ASSUME NEW s \in Seats, Rejoin(s) PROVE RoomInv'
  <2>1. /\ phase # "over" /\ present' = present \cup {s}
        /\ seat' = [seat EXCEPT ![s] = "here"]
        /\ UNCHANGED <<phase, absent, players, current, turnTimer, voteTimer, voted, owner>>
    BY <1>12 DEF Rejoin, Return
  <2>2. bot' \in Tasks /\ BotWillMove'
    BY <1>0, <1>12, ScheduleBotFits DEF Rejoin
  <2> QED
    BY <2>1, <2>2 DEF RoomInv, RoomTypeOK, TimersFit, RoomHasOwner, Humans, Tasks
<1>13. ASSUME NEW s \in Seats, GraceEnds(s) PROVE RoomInv'
  <2>1. /\ seat' = [seat EXCEPT ![s] = "gone"] /\ owner' = owner
        /\ phase # "over" /\ present \in SUBSET players /\ Bots \subseteq present
        /\ seat' \in [Seats -> {"here", "grace", "left", "gone"}]
    BY <1>13 DEF GraceEnds, RoomInv, RoomTypeOK
  <2>2. CASE RoomCloses(present)
    BY <2>1, <2>2, RoomClosesKeeps
  <2>3. CASE s # owner /\ PlaysOnWithout(s)
    <3>1. owner' \in Humans /\ seat'[owner'] \in {"here", "grace"}
      BY <2>1, <2>3 DEF RoomInv, RoomTypeOK, RoomHasOwner, Humans
    <3> QED
      BY <2>1, <2>3, <3>1, PlaysOnKeeps
  <2> QED
    BY <1>13, <2>2, <2>3 DEF GraceEnds
<1>14. ASSUME NEW s \in Seats, LeaveRoom(s) PROVE RoomInv'
  <2>1. /\ seat' = [seat EXCEPT ![s] = "left"] /\ owner' = owner /\ s \notin Bots
        /\ phase # "over" /\ present \ {s} \in SUBSET players /\ Bots \subseteq present \ {s}
        /\ seat' \in [Seats -> {"here", "grace", "left", "gone"}]
    BY <1>14 DEF LeaveRoom, RoomInv, RoomTypeOK
  <2>2. CASE RoomCloses(present \ {s})
    BY <2>1, <2>2, RoomClosesKeeps
  <2>3. CASE s # owner /\ PlaysOnWithout(s)
    <3>1. owner' \in Humans /\ seat'[owner'] \in {"here", "grace"}
      BY <2>1, <2>3 DEF RoomInv, RoomTypeOK, RoomHasOwner, Humans
    <3> QED
      BY <2>1, <2>3, <3>1, PlaysOnKeeps
  <2> QED
    BY <1>14, <2>2, <2>3 DEF LeaveRoom
<1>15. ASSUME NEW s \in Seats, Kick(s) PROVE RoomInv'
  <2>1. /\ seat' = [seat EXCEPT ![s] = "gone"] /\ s \notin Bots
        /\ phase # "over" /\ present \ {s} \in SUBSET players /\ Bots \subseteq present \ {s}
        /\ seat' \in [Seats -> {"here", "grace", "left", "gone"}]
    BY <1>15 DEF Kick, Humans, RoomInv, RoomTypeOK
  <2>2. CASE RoomCloses(present \ {s}) /\ UNCHANGED owner
    BY <2>1, <2>2, RoomClosesKeeps
  <2>3. CASE /\ present \ (Bots \cup {s}) # {}
             /\ PlaysOnWithout(s)
             /\ owner' = IF s = owner THEN NextIn(NumSeats, present' \ Bots) ELSE owner
    <3>1. present' = present \ {s}
      BY <2>3 DEF PlaysOnWithout, Quit
    <3>2. CASE s = owner
      <4>1. present' \ Bots # {} /\ present' \ Bots \in SUBSET Seats /\ NumSeats \in Seats
        BY <2>3, <3>1, NumSeatsAssumption DEF RoomInv, RoomTypeOK, Seats
      <4>2. owner' \in present' \ Bots
        BY <2>3, <3>2, <4>1, NextInChooses
      <4>3. owner' \in Humans /\ seat'[owner'] \in {"here", "grace"}
        BY <2>1, <3>1, <4>2 DEF RoomInv, RoomTypeOK, Humans
      <4> QED
        BY <2>1, <2>3, <4>3, PlaysOnKeeps
    <3>3. CASE s # owner
      <4>1. owner' \in Humans /\ seat'[owner'] \in {"here", "grace"}
        BY <2>1, <2>3, <3>3 DEF RoomInv, RoomTypeOK, RoomHasOwner, Humans
      <4> QED
        BY <2>1, <2>3, <4>1, PlaysOnKeeps
    <3> QED
      BY <3>2, <3>3
  <2> QED
    BY <1>15, <2>2, <2>3 DEF Kick
<1>16. ASSUME NEW s \in Seats, Transfer(s) PROVE RoomInv'
  BY <1>16
  DEF Transfer, turnVars, RoomInv, RoomTypeOK, TimersFit, BotWillMove, BotsTurn, RoomHasOwner, Humans
<1>17. CASE UNCHANGED vars
  BY <1>17
  DEF vars, turnVars, roomVars, RoomInv, RoomTypeOK, TimersFit, BotWillMove, BotsTurn, RoomHasOwner, Humans
<1> QED
  BY <1>1, <1>2, <1>3, <1>4, <1>5, <1>6, <1>7, <1>8, <1>9, <1>10, <1>11, <1>12, <1>13,
     <1>14, <1>15, <1>16, <1>17 DEF Next

(* Every reachable state of a room is in order. *)
LEMMA RoomAlways == Spec => []RoomInv
BY RoomInit, RoomStep, PTL DEF Spec

(* The room's state keeps its shape: a seat is "here" exactly while its     *)
(* player is connected, and the room belongs to a human.                    *)
THEOREM RoomTypeCorrect == Spec => []RoomTypeOK
<1>1. RoomInv => RoomTypeOK
  BY DEF RoomInv
<1> QED
  BY <1>1, RoomAlways, PTL

(* In every order of handlers, timeouts, bot moves, connections and admin   *)
(* actions, the timer that runs is the one the phase of the game calls for. *)
THEOREM TimersAlwaysFit == Spec => []TimersFit
<1>1. RoomInv => TimersFit
  BY DEF RoomInv
<1> QED
  BY <1>1, RoomAlways, PTL

(* The game never hangs on a bot: when one has to move and a human is       *)
(* there, a task made for this turn exists.                                 *)
THEOREM BotAlwaysScheduled == Spec => []BotWillMove
<1>1. RoomInv => BotWillMove
  BY DEF RoomInv
<1> QED
  BY <1>1, RoomAlways, PTL

(* A room that lives has an owner who is there or may still come back. *)
THEOREM RoomAlwaysOwned == Spec => []RoomHasOwner
<1>1. RoomInv => RoomHasOwner
  BY DEF RoomInv
<1> QED
  BY <1>1, RoomAlways, PTL

-----------------------------------------------------------------------------

(* What a step must do to the timer of a turn that begins or goes on. *)
Timed ==
  Limited /\ phase' = "turn" /\ (current' # current \/ phase = "vote") => turnTimer' = "on"

(* The handlers' common endings time the turn they leave behind. *)
LEMMA EndingsAreTimed ==
  ASSUME RestartTurnTimer
  PROVE  Timed
BY DEF RestartTurnTimer, Timed

(* A player's going for good moves the turn only together with its timer. *)
LEMMA PlayingOnIsTimed ==
  ASSUME NEW s \in Seats, PlaysOnWithout(s)
  PROVE  Timed
<1>1. CASE phase = "turn" /\ current \notin present' /\ present' # {}
  BY <1>1, EndingsAreTimed DEF PlaysOnWithout
<1>2. CASE ~ (phase = "turn" /\ current \notin present' /\ present' # {})
  <2>1. current' = current /\ phase' = phase
    BY <1>2 DEF PlaysOnWithout, Quit
  <2> QED
    BY <2>1 DEF Timed
<1> QED
  BY <1>1, <1>2

(* Every turn that begins, and every one that goes on after a vote, gets a  *)
(* running timer, whatever ended the turn or the vote before it.            *)
THEOREM TurnsAlwaysTimed == Spec => TurnsAreTimed
<1>1. [Next]_vars => [Timed]_vars
  <2> SUFFICES ASSUME Next PROVE Timed
    OBVIOUS
  <2>1. CASE HumanMove \/ BotMove
    BY <2>1, EndingsAreTimed
    DEF HumanMove, BotMove, Move, MoveEnds, VoteOpens, OpenVote, turnVars, Timed
  <2>2. CASE TurnTimeout \/ ChallengeTimeout \/ AdminSkip \/ ResolveVote \/ WithdrawWords
    BY <2>2, EndingsAreTimed
    DEF TurnTimeout, ChallengeTimeout, AdminSkip, ResolveVote, WithdrawWords, VoteEnds, MoveEnds
  <2>3. ASSUME NEW v \in Seats, Vote(v) PROVE Timed
    BY <2>3, EndingsAreTimed DEF Vote, VoteEnds, MoveEnds, turnVars, Timed
  <2>4. CASE BotWakes \/ Pause \/ Resume \/ RescheduleBot
    BY <2>4 DEF BotWakes, Pause, Resume, RescheduleBot, BotsTurn, turnVars, Timed
  <2>5. CASE EndRoom
    BY <2>5 DEF EndRoom, RoomCloses, Timed
  <2>6. ASSUME NEW s \in Seats, Disconnect(s) \/ Rejoin(s) \/ Transfer(s) PROVE Timed
    BY <2>6 DEF Disconnect, Drop, Rejoin, Return, Transfer, turnVars, Timed
  <2>7. ASSUME NEW s \in Seats, GraceEnds(s) \/ LeaveRoom(s) \/ Kick(s) PROVE Timed
    BY <2>7, PlayingOnIsTimed DEF GraceEnds, LeaveRoom, Kick, RoomCloses, Timed
  <2> QED
    BY <2>1, <2>2, <2>3, <2>4, <2>5, <2>6, <2>7 DEF Next
<1> QED
  BY <1>1, PTL DEF Spec, TurnsAreTimed, Timed
=============================================================================
