-------------------------- MODULE MCOperatorConsole --------------------------
EXTENDS OperatorConsole

\* The roles of the four laboratory accounts.
MCLocalActor ==
  [operator |-> "op", technical |-> "tech", qa |-> "qa", release |-> "rel"]

MCPersonRoles ==
  [op |-> {"operator"}, tech |-> {"technical_reviewer"},
   qa |-> {"qa_approver"}, rel |-> {"qa_approver"}, adm |-> {"admin"}]
==============================================================================
