----------------------------- MODULE ByteQueue -----------------------------
(***************************************************************************)
(* What muduo::net::Buffer promises: a queue of bytes that is written at   *)
(* its end and read at its front, and where the last bytes written can be  *)
(* taken back and a few bytes can be put in front.                         *)
(***************************************************************************)
EXTENDS Naturals, Sequences

CONSTANT Chunks  \* the byte strings that are written

VARIABLE content

Init == content = <<>>

Write(s) == content' = content \o s
PutInFront(s) == content' = s \o content
Read(n) == content' = SubSeq(content, n + 1, Len(content))
TakeBack(n) == content' = SubSeq(content, 1, Len(content) - n)

Next ==
    \/ \E s \in Chunks : Write(s) \/ PutInFront(s)
    \/ \E n \in 0 .. Len(content) : Read(n) \/ TakeBack(n)

Spec == Init /\ [][Next]_content
=============================================================================
