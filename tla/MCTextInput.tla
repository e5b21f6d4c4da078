---------------------------- MODULE MCTextInput -----------------------------
(***************************************************************************)
(* Model-checking instance of TextInput: a letter and the space, an input *)
(* four cells wide, and the heights a parent may offer.                    *)
(***************************************************************************)
EXTENDS TextInput

MCChars == {"a", " "}
MCValues == {<<>>, <<"a", "a", " ", "a", "a">>}

=============================================================================
