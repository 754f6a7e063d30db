---------------------------- MODULE MCEvaluation ----------------------------
(* Instances of Evaluation for TLC, and with it of BacktestAccount. *)
EXTENDS Evaluation, TLC

CONSTANTS btc, bnb

Order2 == <<btc, bnb>>
Bar(o, h, l, c) == [open |-> o, high |-> h, low |-> l, close |-> c]
\* Quiet, a rise short of the target, both levels touched, a gap down, a slump.
MCBars == {Bar(100, 100, 100, 100), Bar(100, 119, 100, 119), Bar(100, 125, 80, 100),
           Bar(88, 89, 88, 89), Bar(100, 100, 80, 84)}
MCRates == {0, 1}
MCObserved == {{}, {96, 104}}
Names == <<bnb, btc>>
ShortMonths == <<2, 1>>
=============================================================================
