----------------------------- MODULE MCFakeCharge -----------------------------
(* A TLC instance of FakeCharge: a call, its retry, and one that reuses its *)
(* key for another payload.                                                 *)
EXTENDS FakeCharge

CONSTANTS first, retry, misuse

MCCalls == {first, retry, misuse}

MCKeyOf == [r \in MCCalls |-> "job1"]

MCPayloadOf == [r \in MCCalls |-> IF r = misuse THEN "20 EUR" ELSE "10 EUR"]

===============================================================================
