CONSTANTS
    Peers = {p1}
    Root = root
    Radios = {ble}
    Beacons = {t1, t2}
    Hosts = {h1}
    Nets = {n1, n2}
    NoNet = NoNet
    MaxAttach = 2
    MaxFds = 2
SPECIFICATION Spec
INVARIANT ChangeRearms
CHECK_DEADLOCK FALSE
