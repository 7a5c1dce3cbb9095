----------------------------- MODULE Multiboot ------------------------------
(***************************************************************************)
(* The search for a tag in the information of the boot loader.  The loader *)
(* laid out a sequence of tags behind a header of 8 bytes, each from a     *)
(* multiple of 8 on; find_tag walks over them by their sizes.              *)
(*                                                                         *)
(* An operator Name_Defect is Name with a plausible mistake in the code;   *)
(* it is not part of the specification.                                    *)
(***************************************************************************)
EXTENDS Naturals, Sequences, FiniteSetsExt

NoTag == 0   \* no tag is there, in the header of the information

Place(tags, n) ==
  LET At[i \in Nat] == IF i = 1 THEN 8 ELSE At[i - 1] + ((tags[i - 1].size + 7) \div 8) * 8
  IN  At[n]
TotalSize(tags) == Place(tags, Len(tags) + 1)

(* The header read at an offset; only a wrong step leads inside a tag. *)
TagAt(tags, offset) ==
  IF \E i \in DOMAIN tags : Place(tags, i) = offset
  THEN tags[CHOOSE i \in DOMAIN tags : Place(tags, i) = offset]
  ELSE [type |-> "Other", size |-> 0]

NextTag_NoPadding(offset, size) == offset + size
NextTag(offset, size) == offset + ((size + 7) \div 8) * 8

(* The offset of the tag, or NoTag *)
FindTag(tags, type) ==
  LET Search[offset \in Nat] ==
        IF offset >= TotalSize(tags) THEN NoTag
        ELSE LET tag == TagAt(tags, offset)
             IN  IF tag.type = type THEN offset
                 ELSE IF tag.size = 0 THEN NoTag
                 ELSE Search[NextTag(offset, tag.size)]
  IN  Search[8]
-----------------------------------------------------------------------------
(* What the loader says: the first tag of the type *)
FirstTag(tags, type) ==
  LET all == {i \in DOMAIN tags : tags[i].type = type}
  IN  IF all = {} THEN NoTag ELSE Place(tags, Min(all))
=============================================================================
