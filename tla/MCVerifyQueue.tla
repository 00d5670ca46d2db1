---------------------------- MODULE MCVerifyQueue ----------------------------
(* Three concurrent operations, an application that may answer either way  *)
(* and may exit and be started again.                                      *)
EXTENDS VerifyQueue, TLC

CONSTANTS o1, o2, o3

MCOps == {o1, o2, o3}
TwoOps == {o1, o2}
(* The operations are alike and nothing makes them arrive: they may as     *)
(* well be linked, and thereby numbered, in this order.                    *)
InOrder == /\ OperationID[o3] # 0 => OperationID[o2] # 0
           /\ OperationID[o2] # 0 => OperationID[o1] # 0
MCAnswers == BOOLEAN
ShippedAnswers == {TRUE}     \* threadfun always sends operation_permit = true
=============================================================================
