------------------------- MODULE MCAuthorConversation -------------------------
(* AuthorConversation for TLC: two sections, the abstract last. *)
EXTENDS AuthorConversation

SectionOrder == << "method", "abstract" >>
=============================================================================
