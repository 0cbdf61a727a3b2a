------------------------------- MODULE MCSetup -------------------------------
(* Instances of Setup, and of what is composed with it, for TLC.            *)
EXTENDS Setup

CONSTANTS x, y

AnUrl == [scheme |-> "https", host |-> TRUE, loopback |-> FALSE, extras |-> FALSE,
          quoted |-> FALSE]
MCUrls == {
    AnUrl,
    [AnUrl EXCEPT !.quoted = TRUE],     \* https:\\vault.example.com
    [AnUrl EXCEPT !.scheme = "http"]}   \* refused

MCAccountKdf == Argon2id(3, 64, 4)
MCKdfs == {MCAccountKdf, Pbkdf2(5000), Pbkdf2(4999)}

Item(id, type, organization, key, a, sshKey) ==
    [id |-> id, type |-> type, organization |-> organization, key |-> key,
     name |-> Encrypted(IF key = Absent THEN UserKey(a) ELSE key.holds, "name"),
     sshKey |-> IF sshKey
                THEN Encrypted(IF key = Absent THEN UserKey(a) ELSE key.holds, "pem")
                ELSE Absent]

\* x: a key with an item key, a login, a key of an organization and one
\* whose data the server has nulled.  y: a key.
MCVault == [a \in Accounts |->
    IF a = x
    THEN <<Item("x1", SshKeyType, FALSE, Encrypted(UserKey(x), ItemKey(x, 1)), x, TRUE),
           Item("x2", 1, FALSE, Absent, x, FALSE),
           Item("x3", SshKeyType, TRUE, Encrypted("org", "org key"), x, TRUE),
           Item("x4", SshKeyType, FALSE, Absent, x, FALSE)>>
    ELSE <<Item("y1", SshKeyType, FALSE, Absent, y, TRUE)>>]

MCAnswers == {<<>>, <<1, 1>>}

ByHand == [RenderConfig(AnUrl, x, <<"x1">>, "env") EXCEPT
              !.backend = "bws", !.credentials = "keychain", !.vw = Absent]
MCHandWritten == {ByHand}
=============================================================================
