-------------------------------- MODULE MCMcp --------------------------------
EXTENDS Mcp

Entry(url, command, authEnv, oauth) ==
    [name |-> TRUE, url |-> url, command |-> command, authEnv |-> authEnv, oauth |-> oauth]

MCSpecs ==
    {Entry(FALSE, TRUE, "none", FALSE),  Entry(TRUE, FALSE, "set", FALSE),
     Entry(TRUE, FALSE, "none", TRUE),   Entry(TRUE, TRUE, "none", FALSE),
     Entry(TRUE, FALSE, "set", TRUE),    Entry(TRUE, FALSE, "unset", FALSE),
     Entry(FALSE, FALSE, "none", FALSE), [Entry(TRUE, FALSE, "none", FALSE) EXCEPT !.name = FALSE]}

MCStored == {Empty} \cup [tokens : {"good", "expired"}, renew : BOOLEAN, client : {TRUE}]
=============================================================================
