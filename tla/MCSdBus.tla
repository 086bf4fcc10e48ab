------------------------------- MODULE MCSdBus -------------------------------
(* SdBus with a flash of two pages of two words and an image that ends     *)
(* inside a page and inside a word; its last byte may be written wrongly.  *)
EXTENDS SdBus

MCImages == << [image |-> <<1, 2, 3, 4, 5, 6, 7>>, fuse |-> 1] >>
MCFaults == { [kind |-> "none", at |-> 0], [kind |-> "flash", at |-> 6] }
=============================================================================
