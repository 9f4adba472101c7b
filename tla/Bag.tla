--------------------------------- MODULE Bag ---------------------------------
(***************************************************************************)
(* Structures laid out at run time (bag.c): a layout gives each field that *)
(* is registered its offset, and a bag is so many bytes.                   *)
(***************************************************************************)
EXTENDS SequencesExt, Integers

skit_bag_layout_ctor == [bag_size |-> 0, field_offsets |-> << >>]
(* The field's id is its place in field_offsets, counted from 0.           *)
skit_bag_layout_reg_field(layout, field_size) ==
  [bag_size |-> layout.bag_size + field_size, field_offsets |-> Append(layout.field_offsets, layout.bag_size)]
NewFieldId(layout) == Len(layout.field_offsets)

skit_bag_new(layout) == [i \in 1 .. layout.bag_size |-> 0]
skit_bag_get_field(layout, contents, field_id, size) ==
  SubSeq(contents, layout.field_offsets[field_id + 1] + 1, layout.field_offsets[field_id + 1] + size)
skit_bag_set_field(layout, contents, field_id, new_value) ==
  LET offset == layout.field_offsets[field_id + 1]
  IN  [i \in DOMAIN contents |-> IF i - offset \in DOMAIN new_value THEN new_value[i - offset] ELSE contents[i]]

(* Fields of the given sizes, registered in turn.                          *)
SKIT_BAG_REGISTER_FIELDS(sizes) == FoldLeft(skit_bag_layout_reg_field, skit_bag_layout_ctor, sizes)
=============================================================================
