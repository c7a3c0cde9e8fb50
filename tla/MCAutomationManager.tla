------------------------ MODULE MCAutomationManager ------------------------
(* TLC instances of AutomationManager: the schedules users ask for.          *)
EXTENDS AutomationManager

Once(t)     == [kind |-> "Once", at |-> t, step |-> 0]
Calendar(k) == [kind |-> "Calendar", at |-> 0, step |-> k]
OnceOrEach  == {Once(2), Calendar(2)}
=============================================================================
