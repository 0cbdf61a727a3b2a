---------------------------- MODULE MCCredentials ----------------------------
(* Instances of Doctor, and so of VaultLogin and Setup, for TLC.            *)
EXTENDS Doctor, MCSetup

\* A shell of x's: its credentials, and ids for Secrets Manager.
ShellOfX == [ids |-> <<"x1">>, endpoint |-> Absent,
             token |-> [parts |-> 3, version |-> 0, clientId |-> "uuid",
                        seedBytes |-> 16],
             vw |-> <<x, x, x>>]

\* A URL that cannot be written is left to the run of Setup alone.
FewUrls == {u \in MCUrls : ~u.quoted}

MCEnvironments == {NoEnvironment, ShellOfX}
=============================================================================
