-------------------------- MODULE MCWebhookServer ---------------------------
(***************************************************************************)
(* WebhookServer with two events, one of an installation and one that is   *)
(* bound to none, on two connections.                                      *)
(***************************************************************************)
EXTENDS WebhookServer, TLC

CONSTANTS c1, c2, push, ping, inst, h1, h2

MCConn == {c1, c2}
MCEvent == {push, ping}
MCInstallation == {inst}
MCInstallOf == push :> inst @@ ping :> NoInstall
MCRoutes == push :> {h1, h2} @@ ping :> {h1}
=============================================================================
