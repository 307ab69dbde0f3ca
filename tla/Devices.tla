------------------------------ MODULE Devices ------------------------------
(* How a batch is divided over the devices of a net.                        *)
EXTENDS Integers, Sequences

\* resize(): the last device gets the rest. When there are fewer samples than
\* devices only the first ones are resized.
Slices(b, old) ==
    LET c == Len(old)
    IN  [d \in DOMAIN old |->
            IF b < c THEN (IF d <= b THEN 1 ELSE old[d])
            ELSE b \div c + (IF d = c THEN b % c ELSE 0)]

\* The samples of the batch that train_batch() copies to a device.
SliceOf(b, sl, d) ==
    LET start == (d - 1) * (b \div Len(sl))
    IN  start .. start + sl[d] - 1
=============================================================================
