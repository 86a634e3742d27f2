---------------------------- MODULE MCDecoding -----------------------------
EXTENDS Decoding

\* 180 degrees west and not available; 90 degrees south and not available.
MCLons == {2^28 - 108000000, 108600000}
MCLats == {2^27 - 54000000, 54600000}

MCDevices == {{"VDM"}, {"GLL", "GGA", "VTG", "RMC"}, {"HDT", "THS", "VHW", "VBW"},
              {"MWV", "MWD"}, {"DBc"}}
=============================================================================
