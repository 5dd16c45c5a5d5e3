---------------------------- MODULE MC_TeamStage ----------------------------
EXTENDS TeamStage

const_Members == {"ada", "bob"}

\* One message to a member, one to a member and the leader.
const_Mentions == <<{"ada"}, {"bob", "lead"}>>

\* Two members side by side; one twice; one that does not exist and a question; a question before an assignment.
const_CallLists == {<<"ada", "bob">>, <<"ada", "ada">>, <<"nobody", "ask">>, <<"ask", "bob">>}
=============================================================================
