------------------------------- MODULE MCExec -------------------------------
EXTENDS Exec

MCFrames == 1..17

MCProgs == {<<[va |-> 0, memsz |-> 1, filesz |-> 1, w |-> FALSE],
              [va |-> 2, memsz |-> 1, filesz |-> 0, w |-> TRUE]>>,
            <<[va |-> 0, memsz |-> 2, filesz |-> 2, w |-> TRUE]>>}
=============================================================================
