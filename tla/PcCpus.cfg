\* Processor 0 stops and starts processor 1, in either order; a device and the
\* processor itself interrupt it while it masks, halts and runs.
SPECIFICATION Spec
CONSTANTS
    Cpus = {0, 1}
    Device = device
    Main = main
    NoOne = noone
    Halting = {1}
    Boot = 0
    Started = {1}
    Interrupting = {device, 1}
PROPERTIES Responds
CHECK_DEADLOCK FALSE
