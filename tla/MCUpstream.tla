----------------------------- MODULE MCUpstream -----------------------------
EXTENDS Upstream

CONSTANTS session, l1, l2, bot, identity, validator, searcher

\* Every client uses the identity keypair; the bot is a searcher.
MCKeyOf == [c \in Clients |-> identity]
MCRoleOf == [c \in Clients |-> IF c = bot THEN searcher ELSE validator]
=============================================================================
