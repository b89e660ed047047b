----------------------------- MODULE MCProcess -----------------------------
(* Instances of Process for TLC: see MCProcess*.cfg.                        *)
EXTENDS Process

MCKillArgs == {0, 2, -1, -2}
AnyChild == {<<-1, FALSE>>}
MCWaitArgs == {<<0, FALSE>>, <<-1, FALSE>>, <<-2, TRUE>>, <<3, FALSE>>}
=============================================================================
