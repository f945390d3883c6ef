-------------------------- MODULE MCFlowController --------------------------
EXTENDS FlowController, TLC

CONSTANTS strategy, account, position

\* compareWithRemote: one thread, queries back to back.
CompareScript == strategy :> <<position, account>>
=============================================================================
