----------------------------- MODULE MCServer -----------------------------
EXTENDS Server, TLC

Env(protocol, port, timeout) ==
  ("queue.protocol" :> protocol) @@ ("imap.server.tcp.listening_port" :> port)
    @@ ("imap.server.tcp.socket_timeout" :> timeout)

MCEnvironments ==
  { <<>>, Env("amqp", "", "0"), Env("dummy", "a", "1"), Env("amqp", "70000", ""),
    Env("AMQP", "143", "-1"), Env("XMPP", "143", "1") }
MCUpperCase == ("amqp" :> "AMQP") @@ ("dummy" :> "DUMMY") @@ ("noop" :> "NOOP")
MCIntegerTexts == ("0" :> 0) @@ ("1" :> 1) @@ ("-1" :> -1) @@ ("143" :> 143) @@ ("70000" :> 70000)

(* A name that is no atom is left out, and one that comes twice is fatal.  *)
MCPluginFiles == {<<"NOOP", "LOGIN", "A B">>, <<"NOOP", "noop">>}
=============================================================================
