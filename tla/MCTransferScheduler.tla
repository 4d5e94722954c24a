------------------------ MODULE MCTransferScheduler ------------------------
EXTENDS TransferScheduler

\* Two tiny files that can form a group, beside a bulk file.
TinyBesideBulk == <<1, 1, 3000>>

OneRoom == <<"near", "near", "near">>

OneBatch == <<"first", "first", "first">>

Paths == <<"a", "b", "c">>

Distinct == [identity |-> Paths, oversize |-> {}]

\* Either the tiny files are copies of one file, or the bulk file is too large.
CopiesOrTooLarge == {[Distinct EXCEPT !.identity = <<"a", "a", "c">>],
                     [Distinct EXCEPT !.oversize = {3}]}

=============================================================================
