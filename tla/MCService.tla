------------------------------ MODULE MCService ------------------------------
(* Instances of Service for TLC.                                            *)
EXTENDS Service

\* Secrets Manager, with the token in the Keychain.
Good == [form |-> "yaml", backend |-> "bws", credentials |-> "keychain",
         ids |-> <<"id">>, endpoint |-> Absent, vw |-> Absent,
         factor |-> "touch_id", yubikey |-> Absent]
NeedsShell == [Good EXCEPT !.credentials = "env"]

MCFiles == {NoConfig, Good, NeedsShell}
MCOtherFile == Good

Exports == [NoEnvironment EXCEPT
               !.ids = <<"id">>,
               !.token = [parts |-> 3, version |-> 0, clientId |-> "uuid",
                          seedBytes |-> 16]]
MCShells == {NoEnvironment, Exports}
=============================================================================
