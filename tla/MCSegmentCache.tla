----------------------------- MODULE MCSegmentCache -----------------------------
(***************************************************************************)
(* Two routes with a common layout: h1 is rendered with PPR and has a      *)
(* parallel slot beside its page, h2 without PPR and with a loading        *)
(* boundary in the layout.  Two links lead to h1, one of them with         *)
(* prefetch={true}, and one to h2.                                         *)
(***************************************************************************)
EXTENDS SegmentCache

CONSTANTS u1, u2, l1, l2, l3, h1, h2, layout, page1, slot1, page2

MCLinkHref == l1 :> h1 @@ l2 :> h2 @@ l3 :> h1
MCTree == h1 :> <<layout, page1, slot1>> @@ h2 :> <<layout, page2>>
MCParent == layout :> None @@ page1 :> layout @@ slot1 :> layout @@ page2 :> layout
=============================================================================
