----------------------------- MODULE MCTorqCopy -----------------------------
(* Buffers of one to three dimensions with dimensions of one element, rows  *)
(* that are padded, and one with gaps in all three dimensions, which has    *)
(* more strides than the two of the DMA.                                    *)
EXTENDS TorqCopy

MCCounts == {<<3>>, <<1, 3>>, <<2, 2>>, <<3, 2>>, <<2, 1, 2>>, <<2, 2, 2>>}
MCAlignments == [c \in MCCounts |->
                   CASE Len(c) = 2 -> {<<3, 0>>, <<-3, 0>>, <<0, 2>>}
                     [] c = <<2, 2, 2>> -> {<<0, -3, 2>>}
                     [] OTHER -> {}]
=============================================================================
