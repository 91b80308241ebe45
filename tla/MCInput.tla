------------------------------ MODULE MCInput ------------------------------
EXTENDS Input

MCJunkEvents == {[ofs |-> 1, pressed |-> TRUE]}
MCPrograms == {{"DirectInput"}, {"GetAsyncKeyState"}}
=============================================================================
