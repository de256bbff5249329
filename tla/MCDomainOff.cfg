SPECIFICATION Spec
CONSTANTS
    n1 = n1
    n2 = n2
    ip1 = ip1
    ip2 = ip2
    None = None
    Foreign = Foreign
    IP = {ip1, ip2}
    Domain = {n1}
    Wanted <- OnOff
    Mishap <- NoMishap
PROPERTY
    UpdateTurnsOff
