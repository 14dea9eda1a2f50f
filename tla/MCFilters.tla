------------------------------ MODULE MCFilters ------------------------------
(* Small instances of Filters.                                             *)
EXTENDS FiltersProps, TLC

CONSTANTS A, B, x, y, I

As == {{A}}
Star == {{A, B}}
Xs == {{x}}
Ims == {{I}}

\* A filter that excludes a method and an image, and a custom one.
Given == {[Blank EXCEPT !.method = {y}, !.image = {I}, !.exclude = TRUE],
          [Blank EXCEPT !.custom = {m \in Message : m.class = A}]}
=============================================================================
