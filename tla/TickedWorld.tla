---------------------------- MODULE TickedWorld ----------------------------
(***************************************************************************)
(* The world under its clock: ticks come for ever, whether players are     *)
(* there or not.  A tick whose companies all fail still happened, so it is *)
(* told from a stutter by the beat of the deadline it is handed.           *)
(***************************************************************************)
EXTENDS World

VARIABLE beat   \* parity of the deadline the tick was handed

tickedVars == <<company, seated, online, waiting, beat>>

TickedInit == Init /\ beat = 0

DueTick == Tick /\ beat' = 1 - beat

TickedNext ==
  \/ DueTick
  \/ (PlayerMessage \/ Drain \/ Restart) /\ UNCHANGED beat

\* The round clock never stops for ever: some tick always comes.
TickedSpec == TickedInit /\ [][TickedNext]_tickedVars /\ WF_beat(beat' = 1 - beat)

-----------------------------------------------------------------------------
\* A question never outlives the ticks: voted on or not, the game goes on.
QuestionsEnd ==
  \A c \in Companies : company[c].asking ~> ~company[c].asking

PlayingRound(c, r) ==
  /\ c \in Open
  /\ company[c].engine.phase = "play"
  /\ company[c].round = r

\* Something in the company may make its rounds throw, again and again.
MayThrow(c) == ThrowCauses(company[c]) # {}

\* A company that plays goes on playing, whoever is silent: the round it is on
\* gets resolved, unless a question or the end comes first, or somebody has
\* left it such that a round may throw.
RoundsAdvance ==
  \A c \in Companies, r \in 0..(MaxRounds - 1) :
    PlayingRound(c, r) ~> ~PlayingRound(c, r) \/ MayThrow(c)

\* Neither a question nor a round is for ever.
GameGoesOn == QuestionsEnd /\ RoundsAdvance
=============================================================================
