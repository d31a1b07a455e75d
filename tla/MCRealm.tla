------------------------------- MODULE MCRealm -------------------------------
(* Two daemons over two trees of one realm, with one crash. *)
EXTENDS RealmLifecycle
=============================================================================
