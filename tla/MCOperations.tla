---------------------------- MODULE MCOperations ----------------------------
(* The instances of OperationPipeline that TLC checks: at most two          *)
(* operations, a of amount 2 and b of amount 1, and two sessions.          *)
EXTENDS OperationProperties
CONSTANTS a, b, s1, s2,
          KindOfA, KindOfB,
          CallsOfA, CallsOfB

MCAmount == [o \in Ops |-> IF o = a THEN 2 ELSE 1]
MCKind == [o \in Ops |-> IF o = a THEN KindOfA ELSE KindOfB]
MCMaxCalls == [o \in Ops |-> IF o = a THEN CallsOfA ELSE CallsOfB]
==============================================================================
