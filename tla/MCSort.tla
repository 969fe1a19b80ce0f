------------------------------- MODULE MCSort -------------------------------
(* Constant values for model checking Sort. *)
EXTENDS Sort

Left == [right |-> FALSE, descending |-> FALSE, unique |-> FALSE]
Right == [Left EXCEPT !.right = TRUE]
Down == [Left EXCEPT !.descending = TRUE]
RightDown == [Right EXCEPT !.descending = TRUE]
Only == [Left EXCEPT !.unique = TRUE]

\* "", "5", "10" and "A", with a second string that is "" or "5".
MCKey == {<<<<>>, <<53>>>>, <<<<53>>, <<>>>>, <<<<49, 48>>, <<>>>>,
          <<<<49, 48>>, <<53>>>>, <<<<65>>, <<>>>>}
MCOrder == {<<Left>>, <<RightDown>>, <<Down, Right>>, <<Right, Only>>}

\* One entry is larger than the smaller of the two limits.
MCSize == [k \in MCKey |-> IF k[1] = <<>> THEN 3 ELSE 1]
=============================================================================
