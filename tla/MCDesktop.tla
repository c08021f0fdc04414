------------------------------ MODULE MCDesktop ------------------------------
(* A switch and two hosts.  The file on disk holds the lab with one of them     *)
(* linked; a report measures the CPU and one device.                            *)
EXTENDS Desktop

MCIds == {"h1", "h2", "sw"}
MCFiles == {Configuration("lab", <<Node("sw", "switch"), Node("h1", "host"), Node("h2", "host")>>,
                          <<Link("h1", "sw", 1)>>)}
MCBackends == <<"CPU", "CUDA">>
=============================================================================
