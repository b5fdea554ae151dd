--------------------------- MODULE MCCronScheduler ---------------------------
(* Small instances of CronScheduler for TLC. *)
EXTENDS CronScheduler

CONSTANTS hb, j1

At(t)           == [kind |-> "at", at |-> t]
Every(n)        == [kind |-> "every", every |-> n, anchor |-> None]
EveryFrom(n, a) == [kind |-> "every", every |-> n, anchor |-> a]
Cron(times)     == [kind |-> "cron", times |-> times]
Bad             == [kind |-> "bad"]

Repeating == {Every(1)}
OneShots  == {At(2)}
Mixed     == {At(2), Every(1), EveryFrom(2, 1)}
Expressions == {Cron({1}), Bad}
=============================================================================
