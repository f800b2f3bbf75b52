--------------------------- MODULE MCSequenceKernels ---------------------------
EXTENDS SequenceKernels

LayersDef == {[overlap |-> TRUE, ratio |-> 4], [overlap |-> FALSE, ratio |-> 2],
              [overlap |-> FALSE, ratio |-> 3]}

\* Slots are interchangeable: an action picks them, and no property names one.
SlotSymmetry == Permutations(Slots)
===============================================================================
