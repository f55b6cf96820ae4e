---------------------------- MODULE MC_MemberMeta ----------------------------
EXTENDS MemberMeta
=============================================================================
