------------------------ MODULE MC_AgentTaskManager ------------------------
(* Plans that can be rolled back, and plans that stop to ask the user.      *)
EXTENDS AgentTaskManager

TwoSteps == {<<"reversible", "reversible">>, <<"reversible", "ambiguous">>}
ThreeSteps == {<<"reversible", "reversible", "ambiguous">>}
OnePlain == {<<"plain">>}
OneStep == {<<"reversible">>, <<"ambiguous">>}
============================================================================
