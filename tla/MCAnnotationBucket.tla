------------------------ MODULE MCAnnotationBucket ------------------------
(* Two highlights of one book, which nothing tells apart, and IndexedDB at *)
(* most MaxLag writes behind.                                              *)
EXTENDS AnnotationBucket, TLC

CONSTANTS h1, h2

Interchangeable == Permutations({h1, h2})
ShortChain == Len(chain) <= MaxLag
===========================================================================
