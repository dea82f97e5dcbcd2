------------------------------- MODULE MCJournal -------------------------------
EXTENDS Journal, MCFunctions

\* The defaults; quiet hours and a longer retention; and a row edited to 0 days, without toasts.
MCRow ==
    {[quiet |-> FALSE, notify |-> TRUE,  retention |-> 1],
     [quiet |-> TRUE,  notify |-> TRUE,  retention |-> 2],
     [quiet |-> TRUE,  notify |-> FALSE, retention |-> 0]}
=============================================================================
