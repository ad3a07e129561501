-------------------------------- MODULE Crew --------------------------------
(***************************************************************************)
(* What a company's run owes the realtime world: the behaviours that       *)
(* CrewEngine describes, one step per entry of the log.  World is built on *)
(* these operators, and Desks, where the tickets are, implements them.     *)
(***************************************************************************)
EXTENDS CrewEngine

VARIABLE engine

CrewInit == engine = Started

Joins == CanJoin(engine) /\ engine' = Joined(engine)

Leaves == \E s \in engine.seats : engine' = Without(engine, {s})

\* A free action of any seat, between two rounds.
Acts ==
  /\ engine.phase = "play"
  /\ \E p \in ActEnds : engine' = InPhase(engine, p)

Answers ==
  /\ engine.phase \in Deciding
  /\ \E p \in AnswerEnds(engine) : engine' = InPhase(engine, p)

Rounds ==
  /\ engine.phase = "play"
  /\ \E r \in RoundEnds(engine) : engine' = AfterRound(engine, r.end, r.burnt)

CrewNext == Joins \/ Leaves \/ Acts \/ Answers \/ Rounds

CrewSpec == CrewInit /\ [][CrewNext]_engine
=============================================================================
