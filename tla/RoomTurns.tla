----------------------------- MODULE RoomTurns ------------------------------
(* A room with a running game: how the socket handlers, the admin, the turn *)
(* timer, the voting timer, the bots' background moves and the grace        *)
(* periods of lost connections drive the turns of TurnGame                  *)
(* (src/src/server/core.rs, play.rs, events.rs, room.rs, admin/live.rs).    *)
(* Every handler and every wake-up of a task runs with the whole state      *)
(* locked, so it is one action; between the two wake-ups of a bot's move,   *)
(* while it searches, anything may happen.                                  *)
(*                                                                          *)
(* Abstractions.  A room's timers are numbered and a task whose number is   *)
(* no longer the room's returns at once: such a task is not kept here.      *)
(* `fresh` says that a bot's task was made for the turn that is being       *)
(* played: the code compares turn_number, which grows with every turn.  The *)
(* rooms are those of ordinary games, every player of which has a token;    *)
(* correspondence games have none of these timers.  Spectators, saving,     *)
(* late joining and the length of a timer are left out.                     *)
EXTENDS TurnGame

CONSTANTS
  Voting,    \* challenge_mode
  Limited    \* turn_time_limit # 0

ASSUME RoomAssumption == Voting \in BOOLEAN /\ Limited \in BOOLEAN

VARIABLES
  turnTimer,  \* "off", "on" or "paused" (timer_paused_left)
  voteTimer,  \* "off", "on"
  bot,        \* the bots' background task, or NoTask
  voted,      \* who has voted on the pending placement
  seat,       \* per player: "here", "grace", "left" (may come back), "gone"
  owner

roomVars == <<turnTimer, voteTimer, bot, voted, seat, owner>>
vars == <<turnVars, roomVars>>

Humans == players \ Bots
NoTask == [seat |-> 0, fresh |-> FALSE, stage |-> "none"]

(* bot_should_move *)
BotsTurn == phase = "turn" /\ current \in Bots /\ present \ Bots # {}

(* start_game, called by an owner who is there, has just armed the first    *)
(* turn; any player may be the first, also one in a grace period            *)
Init ==
  /\ phase = "turn" /\ absent = FALSE
  /\ players = Seats /\ current \in Seats /\ owner \in Humans
  /\ seat \in {f \in [Seats -> {"here", "grace"}] : \A s \in Bots \cup {owner} : f[s] = "here"}
  /\ present = {s \in Seats : seat[s] = "here"}
  /\ turnTimer = IF Limited THEN "on" ELSE "off"
  /\ voteTimer = "off"
  /\ bot = IF BotsTurn THEN [seat |-> current, fresh |-> TRUE, stage |-> "waiting"] ELSE NoTask
  /\ voted = {}

-----------------------------------------------------------------------------
(* What the handlers do to the room's tasks once the game has moved.  The   *)
(* operators called Fault... here and below are no part of the model: each  *)
(* is a definition with a plausible mistake in it, kept to show that the    *)
(* properties would notice.                                                 *)

(* schedule_bot_turn replaces the task only when a bot has to move; the one *)
(* that exists (or `task`) was made for the turn that has just ended if the *)
(* turn `moved`.                                                            *)
ScheduleBot(task, moved) ==
  bot' = IF BotsTurn'
         THEN [seat |-> current', fresh |-> TRUE, stage |-> "waiting"]
         ELSE [task EXCEPT !.fresh = @ /\ ~moved]

(* invalidate_turn_timer, then start_turn_timer if the game goes on; this   *)
(* ends a pause too                                                         *)
RestartTurnTimer ==
  turnTimer' = IF Limited /\ phase' = "turn" THEN "on" ELSE "off"

(* The end of a move: a new turn, or the end of the game. *)
MoveEnds(task) ==
  /\ NextTurn \/ Finish
  /\ RestartTurnTimer
  /\ voteTimer' = "off" /\ voted' = {}
  /\ ScheduleBot(task, phase' # "over")

FaultTurnTimerRunsOn(task) ==
  /\ Voting /\ OpenVote
  /\ voteTimer' = "on" /\ voted' = {}
  /\ ScheduleBot(task, FALSE) /\ UNCHANGED turnTimer

FaultVoteUntimed(task) ==
  /\ Voting /\ OpenVote
  /\ turnTimer' = "off" /\ voted' = {}
  /\ ScheduleBot(task, FALSE) /\ UNCHANGED voteTimer

(* A placement goes to the vote: start_challenge_timer. *)
VoteOpens(task) ==
  /\ Voting /\ OpenVote
  /\ turnTimer' = "off"
  /\ voteTimer' = "on" /\ voted' = {}
  /\ ScheduleBot(task, FALSE)

(* a pass and an exchange end the turn, a placement may go to the vote *)
Move(task) == MoveEnds(task) \/ VoteOpens(task)

(* The vote is over: the tiles are on the board and the turn is over, or    *)
(* they go back and a placer who is here plays on.                          *)
VoteEnds ==
  \/ MoveEnds(bot)
  \/ /\ PlacerAgain
     /\ RestartTurnTimer
     /\ voteTimer' = "off" /\ voted' = {}
     /\ ScheduleBot(bot, FALSE)

-----------------------------------------------------------------------------
(* Socket handlers of the game. *)

HumanMove ==
  /\ phase = "turn" /\ current \in present \ Bots
  /\ Move(bot)
  /\ UNCHANGED <<seat, owner>>

Vote(v) ==
  /\ phase = "vote" /\ v \in present \ (Bots \cup voted \cup {current})
  /\ \/ /\ Humans \ {current} \subseteq voted \cup {v}
        /\ VoteEnds
     \/ /\ ~ (Humans \ {current} \subseteq voted \cup {v})
        /\ voted' = voted \cup {v}
        /\ UNCHANGED <<turnVars, turnTimer, voteTimer, bot>>
  /\ UNCHANGED <<seat, owner>>

WithdrawWords ==
  /\ phase = "vote" /\ current \notin Bots /\ voted = {}
  /\ PlacerAgain
  /\ RestartTurnTimer
  /\ voteTimer' = "off"
  /\ UNCHANGED <<bot, voted, seat, owner>>

-----------------------------------------------------------------------------
(* Tasks that wake up. *)

FaultTimeoutOfPresent ==
  /\ phase = "turn" /\ turnTimer = "on" /\ current \in present
  /\ MoveEnds(bot)
  /\ UNCHANGED <<seat, owner>>

(* A pass in the current player's name, whoever that is.  (A pass would be  *)
(* refused during a vote; TimersFit shows that no timer runs then.)         *)
TurnTimeout ==
  /\ phase = "turn" /\ turnTimer = "on"
  /\ MoveEnds(bot)
  /\ UNCHANGED <<seat, owner>>

ChallengeTimeout ==
  /\ phase = "vote" /\ voteTimer = "on"
  /\ VoteEnds
  /\ UNCHANGED <<seat, owner>>

(* play_bot_turn after the pause: it goes on to search if there is still a  *)
(* move to make                                                             *)
BotWakes ==
  /\ bot.stage = "waiting"
  /\ bot' = IF BotsTurn /\ bot.fresh THEN [bot EXCEPT !.stage = "searching"] ELSE NoTask
  /\ UNCHANGED <<turnVars, turnTimer, voteTimer, voted, seat, owner>>

(* the search is over: the move is made unless the state has changed *)
BotMove ==
  /\ bot.stage = "searching"
  /\ \/ /\ phase = "turn" /\ current = bot.seat /\ bot.fresh
        /\ Move(NoTask)
     \/ /\ ~ (phase = "turn" /\ current = bot.seat /\ bot.fresh)
        /\ bot' = NoTask
        /\ UNCHANGED <<turnVars, turnTimer, voteTimer, voted>>
  /\ UNCHANGED <<seat, owner>>

-----------------------------------------------------------------------------
(* Connections. *)

(* cleanup_room and disband_active_room: nobody plays on *)
RoomCloses(here) ==
  /\ phase' = "over"
  /\ present' = here /\ UNCHANGED <<absent, players, current>>
  /\ turnTimer' = "off" /\ voteTimer' = "off" /\ voted' = {} /\ bot' = NoTask

FaultSkipKeepsTimer(s) ==
  /\ Quit(s)
  /\ IF phase = "turn" /\ current \notin present' /\ present' # {}
     THEN ScheduleBot(bot, TRUE)
     ELSE UNCHANGED bot
  /\ UNCHANGED <<turnTimer, voteTimer, voted>>

(* advance_turn_if_needed, s being away for good *)
PlaysOnWithout(s) ==
  /\ Quit(s)
  /\ IF phase = "turn" /\ current \notin present' /\ present' # {}
     THEN RestartTurnTimer /\ ScheduleBot(bot, TRUE)
     ELSE UNCHANGED <<turnTimer, bot>>
  /\ UNCHANGED <<voteTimer, voted>>

(* handle_disconnect: the grace period begins, the game waits *)
Disconnect(s) ==
  /\ Drop(s)
  /\ seat' = [seat EXCEPT ![s] = "grace"]
  /\ UNCHANGED <<turnTimer, voteTimer, bot, voted, owner>>

FaultRejoinForgetsBot(s) ==
  /\ seat[s] \in {"grace", "left"}
  /\ Return(s)
  /\ seat' = [seat EXCEPT ![s] = "here"]
  /\ UNCHANGED <<turnTimer, voteTimer, bot, voted, owner>>

(* rejoin_room: the turn is not looked at, only a bot that should move *)
Rejoin(s) ==
  /\ seat[s] \in {"grace", "left"}
  /\ Return(s)
  /\ seat' = [seat EXCEPT ![s] = "here"]
  /\ ScheduleBot(bot, FALSE)
  /\ UNCHANGED <<turnTimer, voteTimer, voted, owner>>

(* finalize_player_disconnect *)
GraceEnds(s) ==
  /\ phase # "over" /\ seat[s] = "grace"
  /\ seat' = [seat EXCEPT ![s] = "gone"]
  /\ IF s = owner \/ present \ Bots = {} THEN RoomCloses(present) ELSE PlaysOnWithout(s)
  /\ UNCHANGED owner

(* leave_room: a player other than the owner may still come back *)
LeaveRoom(s) ==
  /\ phase # "over" /\ s \in present \ Bots
  /\ seat' = [seat EXCEPT ![s] = "left"]
  /\ IF s = owner THEN RoomCloses(present \ {s}) ELSE PlaysOnWithout(s)
  /\ UNCHANGED owner

-----------------------------------------------------------------------------
(* The admin's actions on a room. *)

FaultBotInherits(s) ==
  /\ phase # "over" /\ s \in Humans
  /\ seat' = [seat EXCEPT ![s] = "gone"]
  /\ IF present \ (Bots \cup {s}) = {}
     THEN RoomCloses(present \ {s}) /\ UNCHANGED owner
     ELSE /\ PlaysOnWithout(s)
          /\ owner' = IF s = owner THEN NextIn(NumSeats, present') ELSE owner

FaultOwnerless(s) ==
  /\ phase # "over" /\ s \in Humans
  /\ seat' = [seat EXCEPT ![s] = "gone"]
  /\ IF present \ (Bots \cup {s}) = {}
     THEN RoomCloses(present \ {s})
     ELSE PlaysOnWithout(s)
  /\ UNCHANGED owner

(* remove_player: the room goes on while a human is connected *)
Kick(s) ==
  /\ phase # "over" /\ s \in Humans
  /\ seat' = [seat EXCEPT ![s] = "gone"]
  /\ IF present \ (Bots \cup {s}) = {}
     THEN RoomCloses(present \ {s}) /\ UNCHANGED owner
     ELSE /\ PlaysOnWithout(s)
          /\ owner' = IF s = owner THEN NextIn(NumSeats, present' \ Bots) ELSE owner

Transfer(s) ==
  /\ phase # "over" /\ s \in present \ Bots
  /\ owner' = s
  /\ UNCHANGED <<turnVars, turnTimer, voteTimer, bot, voted, seat>>

AdminSkip == phase = "turn" /\ MoveEnds(bot) /\ UNCHANGED <<seat, owner>>

ResolveVote == phase = "vote" /\ VoteEnds /\ UNCHANGED <<seat, owner>>

(* an extension of the time leaves the timer running, or paused *)
Pause ==
  /\ phase = "turn" /\ turnTimer = "on"
  /\ turnTimer' = "paused"
  /\ UNCHANGED <<turnVars, voteTimer, bot, voted, seat, owner>>

Resume ==
  /\ phase = "turn" /\ turnTimer = "paused"
  /\ turnTimer' = "on"
  /\ UNCHANGED <<turnVars, voteTimer, bot, voted, seat, owner>>

RescheduleBot ==
  /\ BotsTurn
  /\ UNCHANGED <<turnVars, turnTimer, voteTimer, voted, seat, owner>>
  /\ ScheduleBot(bot, FALSE)

(* end, void and disband: the game, or the room with it, is over *)
EndRoom == phase # "over" /\ RoomCloses(present) /\ UNCHANGED <<seat, owner>>

-----------------------------------------------------------------------------

Next ==
  \/ HumanMove \/ WithdrawWords
  \/ TurnTimeout \/ ChallengeTimeout \/ BotWakes \/ BotMove
  \/ AdminSkip \/ ResolveVote \/ Pause \/ Resume \/ RescheduleBot \/ EndRoom
  \/ \E s \in Seats : \/ Vote(s) \/ Disconnect(s) \/ Rejoin(s) \/ GraceEnds(s)
                      \/ LeaveRoom(s) \/ Kick(s) \/ Transfer(s)

Spec == Init /\ [][Next]_vars

(* tokio's sleeping tasks wake up; players and admins owe nothing *)
FairSpec ==
  /\ Spec
  /\ WF_vars(TurnTimeout) /\ WF_vars(ChallengeTimeout)
  /\ WF_vars(BotWakes) /\ WF_vars(BotMove)

-----------------------------------------------------------------------------
(* Invariants. *)

(* The shape of the room's state: a seat is "here" exactly when its player  *)
(* is connected (in a room that lives), bots always are, and the room       *)
(* belongs to a human.                                                      *)
RoomTypeOK ==
  /\ phase \in {"turn", "vote", "over"} /\ absent = FALSE
  /\ players = Seats /\ present \subseteq players /\ current \in players
  /\ turnTimer \in {"off", "on", "paused"} /\ voteTimer \in {"off", "on"}
  /\ bot \in [seat: Bots, fresh: BOOLEAN, stage: {"waiting", "searching"}] \cup {NoTask}
  /\ voted \subseteq Humans
  /\ seat \in [Seats -> {"here", "grace", "left", "gone"}]
  /\ phase # "over" => present = {s \in Seats : seat[s] = "here"}
  /\ Bots \subseteq present
  /\ owner \in Humans

(* Whatever handlers, timeouts and bots came in between: while a placement  *)
(* waits the voting timer runs and the turn timer does not (its pass would  *)
(* be refused and the timer lost), a limited turn has a timer, running or   *)
(* paused, and nothing is left to go off in a finished game.                *)
TimersFit ==
  /\ phase = "vote" => voteTimer = "on" /\ turnTimer = "off"
  /\ phase = "turn" => voteTimer = "off" /\ (Limited <=> turnTimer \in {"on", "paused"})
  /\ phase = "over" => voteTimer = "off" /\ turnTimer = "off"

(* Whenever it is a bot's turn and a human is connected, a task exists that *)
(* was made for this very turn, so that the game cannot hang on a bot: not  *)
(* after everybody was away, nor after a kick, a vote or a stale search.    *)
BotWillMove ==
  BotsTurn => bot.stage # "none" /\ bot.fresh /\ bot.seat = current

(* A room that lives has an owner who sits at the table or may still come   *)
(* back: leaving, losing the connection and being kicked either hand the    *)
(* ownership over or close the room.                                        *)
RoomHasOwner == phase # "over" => seat[owner] \in {"here", "grace"}

-----------------------------------------------------------------------------
(* Action and liveness properties. *)

(* Every turn that begins, and every turn that goes on after a vote, gets a *)
(* running timer: no pause and no timer is inherited from the turn before.  *)
TurnsAreTimed ==
  [][Limited /\ phase' = "turn" /\ (current' # current \/ phase = "vote")
       => turnTimer' = "on"]_vars

(* A placement does not wait for the voters for ever. *)
VoteIsDecided == phase = "vote" ~> phase # "vote"

(* With a time limit the turn does not rest on an absent player: it moves   *)
(* on, unless he returns or the admin has stopped the clock.                *)
AbsentTurnPasses ==
  \A s \in Seats :
    phase = "turn" /\ current = s /\ s \notin present
      ~> phase # "turn" \/ current # s \/ s \in present \/ turnTimer = "paused"

(* A bot makes its move: its turn ends, or nobody is there to see it; as    *)
(* long as returning players and the admin do not restart its pause again   *)
(* and again.                                                               *)
BotPlays ==
  <>[][~RescheduleBot /\ \A s \in Seats : ~Rejoin(s)]_vars => (BotsTurn ~> ~BotsTurn)

(* USER_GUIDE.md:277 "a játék átugorja a köreidet": the game skips the      *)
(* turns of a player who is away.  Once his grace period is over or he has  *)
(* left, the turn does not rest on him while others are connected.          *)
NoStuckTurn ==
  phase = "turn" /\ present \ Bots # {} => current \in present \/ seat[current] = "grace"
=============================================================================
