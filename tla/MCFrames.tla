------------------------------ MODULE MCFrames ------------------------------
(* Machines small enough for TLC, each with one source of trouble. *)
EXTENDS Frames

Machine == [segs |-> {}, stack |-> {}, maps |-> {}, readonly |-> {}, frames |-> 2, slots |-> 0,
            forks |-> FALSE, unmaps |-> FALSE]

\* Two frames for three pages of every kind.
Swapping == [Machine EXCEPT !.segs = {1}, !.stack = {2}, !.maps = {3}, !.slots = 2]
\* Processes that fork and exit: a segment that is written, and
\* a read-only one beside a stack.
Forking == [Machine EXCEPT !.segs = {1}, !.frames = 3, !.forks = TRUE]
Stacked == [Machine EXCEPT !.segs = {1}, !.readonly = {1}, !.stack = {2}, !.frames = 3,
                           !.forks = TRUE]
\* A file of three pages, mapped and unmapped again and again.
Mapping == [Machine EXCEPT !.maps = {1, 2, 3}, !.frames = 3, !.unmaps = TRUE]

AllMachines == {Swapping, Forking, Stacked, Mapping}
ForkOnly == {Forking, Stacked}
=============================================================================
