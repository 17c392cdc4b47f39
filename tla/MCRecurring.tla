---------------------------- MODULE MCRecurring ----------------------------
(* Small schedules for TLC: daily without an end, every other day with one. *)
EXTENDS Recurring

CONSTANTS t1, k1, w1, w2, q1

OneTemplate == {t1}
NoKeys == {}
OneKey == {k1}
OneWorker == {w1}
TwoWorkers == {w1, w2}
NoRequests == {}
OneRequest == {q1}

EveryDay(end, policy) == [start |-> 1, interval |-> 1, end |-> end, catchUp |-> policy]

Endless == {EveryDay(None, "GENERATE_ALL"), EveryDay(None, "GENERATE_LATEST_ONLY")}

Ending == {EveryDay(1, "GENERATE_ALL"), EveryDay(2, "SKIP_MISSED")}

Mixed == {EveryDay(2, "GENERATE_ALL"),
          [start |-> 1, interval |-> 2, end |-> None, catchUp |-> "SKIP_MISSED"]}
=============================================================================
