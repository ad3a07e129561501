----------------------------- MODULE MCForecast -----------------------------
(* The game's numbers, scaled down: the same order between prices, refunds  *)
(* and thresholds as core/balance.ts, on a gauge of three that may grow to   *)
(* four. A refusal adds no points to the ticket; documentation costs what a  *)
(* whole gauge holds, so that a single turn may empty a rested player.       *)
EXTENDS Forecast

MCBalance ==
  [energyMax |-> 3, craft |-> 1, ai |-> 1, review |-> 1, conflict |-> 2,
   cost |-> [commit |-> 0, refactor |-> 1, fix |-> 1, risky |-> 1, docs |-> 2,
             hotfix |-> 0, feature_merge |-> 2, sprint_merge |-> 2],
   mergeRegen |-> 3, releaseRegen |-> 2, restRegen |-> 2, burnoutStreak |-> 2,
   perAi |-> 1, perCraft |-> 0, perRisky |-> 1, perConflict |-> 1, perTakeover |-> 1,
   perMigration |-> 1, stamina |-> 1,
   refactorRepay |-> 1, explosionRepay |-> 2, reviewRepay |-> 1,
   debtMax |-> 2, floor |-> 1, explodeAt |-> 2,
   cleans |-> 1, docs |-> 1, rework |-> 0,
   points |-> [craft |-> 1, ai |-> 2, risky |-> 1, forced |-> 1],
   size |-> [feature |-> 2, hotfix |-> 1, refactor |-> 1]]

\* A hotfix comes only to an empty hand.
MCMaxOpen == [feature |-> 1, hotfix |-> 0, refactor |-> 1]

=============================================================================
