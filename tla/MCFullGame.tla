------------------------------ MODULE MCFullGame ------------------------------
EXTENDS FullGame, TLC

MCGateway == [token |-> "secret", bind |-> "loopback",
              upstream |-> [scheme |-> "http", host |-> "loopback", bare |-> TRUE]]
Remote == [scheme |-> "https", host |-> "elsewhere", token |-> "secret"]
Stale == [Remote EXCEPT !.token = "the one before"]
Local == [scheme |-> "http", host |-> "loopback", token |-> NoToken]

MCSetups == [mode : {"full", "session", "partial", "direct"}, client : {Remote}]
              \cup {[mode |-> "full", client |-> Stale], [mode |-> "binding", client |-> Local],
                    [mode |-> "direct", client |-> Local]}

MCBindings ==
  "a" :> {[name |-> "A", format |-> "commander", deck |-> "cards with the commander"]}
  @@ "b" :> {[name |-> "B", format |-> "other", deck |-> "prebuilt"]}
  @@ "c" :> {[name |-> "C", format |-> "other", deck |-> "cards with the commander"]}
  @@ "gone" :> {}
=============================================================================
